---- MODULE Spec2Model ----
(***************************************************************************)
(* A model of the capture unit of VCS (src/src/capture/capture.cpp): the   *)
(* single-slot frame handoff between the capture card's callbacks and the  *)
(* main loop, the signal flags, and the events the main loop polls.        *)
(***************************************************************************)
EXTENDS Integers, Sequences, FiniteSets, TLC

\* The frame counters are C++ unsigned ints that wrap around. The model keeps
\* the wrap-around but narrows the width: they count modulo CounterModulus.
CounterModulus == 5

\* capture.cpp:77
MAX_BIT_DEPTH == 32

VARIABLES
    CNT_FRAMES_PROCESSED,        \* capture.cpp:42
    CNT_FRAMES_CAPTURED,         \* capture.cpp:43
    CNT_FRAMES_SKIPPED,          \* capture.cpp:47
    RECEIVING_A_SIGNAL,          \* capture.cpp:50
    UNRECOVERABLE_CAPTURE_ERROR, \* capture.cpp:54
    SIGNAL_IS_INVALID,           \* capture.cpp:57
    SIGNAL_WAS_LOST,             \* capture.cpp:61
    SIGNAL_BECAME_INVALID,       \* capture.cpp:66
    RECEIVED_NEW_VIDEO_MODE,     \* capture.cpp:74
    SIGNAL_WOKE_UP,              \* capture.cpp:28
    SKIP_NEXT_NUM_FRAMES,        \* capture.cpp:31
    FRAME_BUFFER,                \* capture.cpp:71
    IS_ALIASED_INPUT_RESOLUTION, \* capture.cpp:25
    ALIASES,                     \* capture.cpp:94
    KNOWN_MODES,                 \* capture.cpp:33
    CAPTURE_IS_ACTIVE,           \* capture.cpp:86
    PROGRAM_EXIT_REQUESTED,      \* the process-wide exit flag
    INPUT_OUTPUT_MUTEX,          \* capture.cpp:22: "free", or the thread holding it
    cardResolution,              \* the capture card: its current capture resolution
    cardParams,                  \* the capture card: the video and colour parameters set
    cardCallbacks,               \* the capture card: TRUE while the callbacks are registered
    cbPc,                        \* the card's callback thread: where it is in frame_captured
    cbFrame,                     \* the frame the running frame_captured call was given
    mainPc,                      \* the main loop: "poll", "handle", "exited", "released"
    event,                       \* the event the main loop polled last
    cbSincePoll,                 \* history: the signal callbacks delivered since the last poll
    onFrameRun,                  \* history: length of the run of back-to-back valid frames
                                 \* since start-up, -1 once anything else has happened
    lastForceRequest,            \* history: argument of the last force-resolution call
    lastApplyRequest,            \* history: argument of the last apply-mode-parameters call
    INPUT_CHANNEL_IDX,           \* the input channel in use (capture.cpp:800)
    FRAME_SKIP,                  \* the frame dropping in use (capture.cpp:772)
    CAPTURE_PIXEL_FORMAT,        \* capture.cpp:36
    CAPTURE_COLOR_DEPTH,         \* capture.cpp:37
    cardSettings,                \* the capture card: its input, frame dropping and pixel format
    lastCall,                    \* history: the last call of a setter, and how it went
    lastAliasCall,               \* history: the last call that replaced the aliases
    lastModeUpdate,              \* history: the last call of update_known_mode_params
    UPSCALE_FILTER,              \* scaler.cpp:34, the name of the filter
    DOWNSCALE_FILTER,            \* scaler.cpp:35, the name of the filter
    ASPECT_MODE,                 \* scaler.cpp:54
    FORCE_ASPECT,                \* scaler.cpp:55
    LATEST_OUTPUT_SIZE,          \* scaler.cpp:57
    BASE_RESOLUTION,             \* scaler.cpp:61
    FORCE_BASE_RESOLUTION,       \* scaler.cpp:62
    OUTPUT_SCALING,              \* scaler.cpp:65, in hundredths
    FORCE_SCALING,               \* scaler.cpp:66
    lastScale,                   \* history: the last call of ks_scale_frame under the
                                 \* settings as they are, and what it did
    lastConversion,              \* history: the last call of s_convert_frame_to_bgra
    graphNodes,                  \* the filter graph's scene: the nodes in it
    graphEdges,                  \* the filter graph's scene: the connections, each from a
                                 \* node's output edge to a node's input edge
    inputGateNodes,              \* filter_graph_dialog: the input gates, as they were added
    filterChains,                \* the filter handler's list of chains
    cycleWarnings,               \* history: the loop warnings of the last recalculation
    aliasFile,                   \* the disk: the alias file
    aliasTmp,                    \* the disk: the alias file's name with ".tmp"
    modeFile,                    \* the disk: the mode parameter file
    modeTmp,                     \* the disk: the mode parameter file's name with ".tmp"
    lastDisk,                    \* history: the last save or load, and how it went
    cb2Pc,                       \* a second thread of the card: where it is in frame_captured
    cb2Frame,                    \* the frame the second thread was called with
    WINDOW,                      \* d_main.cpp:30: "nullptr", or "MainWindow" once acquired
    windowSignalInfo,            \* the main window: what it was last told of the signal
    lastStatusCall,              \* history: the last call of
                                 \* kd_set_capture_signal_reception_status
    sinceProcessed               \* history: how the frame_captured calls counted since the
                                 \* frame buffer was last marked as processed ended:
                                 \* "stored" and "rejected"

counterVars == <<CNT_FRAMES_PROCESSED, CNT_FRAMES_CAPTURED, CNT_FRAMES_SKIPPED>>
flagVars == <<RECEIVING_A_SIGNAL, UNRECOVERABLE_CAPTURE_ERROR, SIGNAL_IS_INVALID,
              SIGNAL_WAS_LOST, SIGNAL_BECAME_INVALID, RECEIVED_NEW_VIDEO_MODE,
              SIGNAL_WOKE_UP>>
modeVars == <<IS_ALIASED_INPUT_RESOLUTION, ALIASES, KNOWN_MODES, cardParams,
              lastForceRequest, lastApplyRequest>>
cardVars == <<cardResolution, cardCallbacks, CAPTURE_IS_ACTIVE>>
settingVars == <<INPUT_CHANNEL_IDX, FRAME_SKIP, CAPTURE_PIXEL_FORMAT, CAPTURE_COLOR_DEPTH,
                 cardSettings, lastCall>>
\* What the frame handoff and the signal callbacks never touch.
scalerVars == <<UPSCALE_FILTER, DOWNSCALE_FILTER, ASPECT_MODE, FORCE_ASPECT, LATEST_OUTPUT_SIZE,
                BASE_RESOLUTION, FORCE_BASE_RESOLUTION, OUTPUT_SCALING, FORCE_SCALING,
                lastScale>>
\* What only the conversions, the filter graph and the files touch.
graphVars == <<graphNodes, graphEdges, inputGateNodes, filterChains, cycleWarnings>>
fileVars == <<aliasFile, aliasTmp, modeFile, modeTmp>>
diskVars == <<fileVars, lastDisk>>
secondVars == <<cb2Pc, cb2Frame>>
displayVars == <<WINDOW, windowSignalInfo, lastStatusCall>>
lateVars == <<secondVars, sinceProcessed, displayVars>>
restVars == <<lastConversion, graphVars, diskVars, lateVars>>
engineVars == <<settingVars, lastAliasCall, lastModeUpdate, scalerVars, restVars>>
\* engineVars without the history of the frame buffer.
engineVarsOfHandoff == <<settingVars, lastAliasCall, lastModeUpdate, scalerVars, lastConversion,
                         graphVars, diskVars, secondVars, displayVars>>
\* Everything the capture unit keeps for the handoff and the signal state.
ingressVars == <<counterVars, flagVars, SKIP_NEXT_NUM_FRAMES, FRAME_BUFFER>>
vars == <<counterVars, flagVars, modeVars, cardVars, engineVars, SKIP_NEXT_NUM_FRAMES,
          FRAME_BUFFER,
          PROGRAM_EXIT_REQUESTED, INPUT_OUTPUT_MUTEX, cbPc, cbFrame, mainPc, event,
          cbSincePoll, onFrameRun>>

----------------------------------------------------------------------------
\* Data

Res(w, h) == [w |-> w, h |-> h]
NoRes == Res(0, 0)
R800x600 == Res(800, 600)
R1024x768 == Res(1024, 768)

\* The video modes the card's input switches between.
VideoModes == {R800x600, R1024x768}

\* A frame as the card hands it to frame_captured: the bitmap header
\* (frameInfo) and the pixel data (frameData), either of which may be null.
Frame(infoNull, dataNull, w, h, bpp, data) ==
    [infoNull |-> infoNull, dataNull |-> dataNull,
     biWidth |-> w, biHeight |-> h, biBitCount |-> bpp, data |-> data]

NoFrame == Frame(TRUE, TRUE, 0, 0, 0, "none")

\* Bottom-up bitmaps carry a negative height.
ValidFrames == {Frame(FALSE, FALSE, 800, -600, 32, "a"),
                Frame(FALSE, FALSE, 1024, 768, 16, "b")}

InvalidFrames == {Frame(TRUE, FALSE, 0, 0, 0, "a"),
                  Frame(FALSE, TRUE, 800, 600, 32, "none"),
                  Frame(FALSE, FALSE, 1024, 768, 40, "b")}

Frames == ValidFrames \cup InvalidFrames

abs(x) == IF x < 0 THEN -x ELSE x

Wrap(n) == n % CounterModulus

\* The card's default parameters, and a set the user stored for 1024 x 768.
default_video_settings ==
    [phase |-> 0, blackLevel |-> 8, horScale |-> 100, horPos |-> 112, verPos |-> 36]
default_color_settings ==
    [bright |-> 32, contr |-> 128, redBright |-> 64, greenBright |-> 64,
     blueBright |-> 64, redContr |-> 256, greenContr |-> 256, blueContr |-> 256]

StoredVideoSettings ==
    [phase |-> 4, blackLevel |-> 9, horScale |-> 101, horPos |-> 120, verPos |-> 30]
StoredColorSettings ==
    [bright |-> 40, contr |-> 130, redBright |-> 60, greenBright |-> 61,
     blueBright |-> 62, redContr |-> 250, greenContr |-> 251, blueContr |-> 252]

----------------------------------------------------------------------------
\* The capture unit's functions, as operators on the values they read.

\* Mutant: the test is missing, and every frame goes on to the mutex.
frame_captured_never_skips(captured, processed) == FALSE

\* frame_captured, the test it makes before taking the mutex: the frame is
\* skipped while the previous one has not been processed.
frame_captured_skips(captured, processed) == captured # processed

\* Mutant: the test of the bit depth is missing.
frame_rejected_any_depth(exitRequested, frame, buffer) ==
    \/ exitRequested
    \/ frame.dataNull
    \/ frame.infoNull
    \/ buffer.pixelsNull

\* frame_captured, under the mutex: the tests that send a frame to `done`
\* without storing it.
frame_rejected(exitRequested, frame, buffer) ==
    \/ exitRequested
    \/ frame.dataNull
    \/ frame.infoNull
    \/ buffer.pixelsNull
    \/ frame.biBitCount > MAX_BIT_DEPTH

\* frame_captured, under the mutex: the frame's resolution and pixels go into
\* the frame buffer; `copied` is the byte count asked of memcpy.
frame_stored(frame, buffer) ==
    LET w == frame.biWidth
        h == abs(frame.biHeight)
        bpp == frame.biBitCount
    IN  [pixelsNull |-> buffer.pixelsNull,
         r |-> [w |-> w, h |-> h, bpp |-> bpp],
         pixels |-> frame.data,
         copied |-> w * h * (bpp \div 8)]

\* Mutant: a stored frame is counted when it is stored and again at `done`.
frame_captured_locked_counts_twice(exitRequested, frame, buffer, captured) ==
    IF frame_rejected(exitRequested, frame, buffer)
    THEN [buffer |-> buffer, captured |-> Wrap(captured + 1)]
    ELSE [buffer |-> frame_stored(frame, buffer), captured |-> Wrap(captured + 2)]

\* frame_captured, under the mutex, from lock to return.
frame_captured_locked(exitRequested, frame, buffer, captured) ==
    [buffer |-> IF frame_rejected(exitRequested, frame, buffer)
                THEN buffer
                ELSE frame_stored(frame, buffer),
     captured |-> Wrap(captured + 1)]

\* Mutant: processed is set one past captured.
kc_mark_frame_buffer_as_processed_off_by_one(captured, skipNext) ==
    [processed |-> Wrap(captured + 1),
     skipNext |-> IF skipNext > 0 THEN skipNext - 1 ELSE skipNext]

kc_mark_frame_buffer_as_processed(captured, skipNext) ==
    [processed |-> captured,
     skipNext |-> IF skipNext > 0 THEN skipNext - 1 ELSE skipNext]

\* The index (from 0) of the first alias whose `from` is r, or -1.
kc_alias_resolution_index(aliases, r) ==
    LET hits == {i \in 1..Len(aliases) : aliases[i].from.w = r.w /\ aliases[i].from.h = r.h}
    IN  IF hits = {} THEN -1
        ELSE (CHOOSE i \in hits : \A j \in hits : i <= j) - 1

\* current: what the card reports as its capture resolution; apiOk: whether
\* the card accepts the calls that set the resolution.
kc_force_capture_input_resolution(r, current, apiOk, skipNext) ==
    IF r.w = current.w /\ r.h = current.h
    THEN [ok |-> FALSE, resolution |-> current, skipNext |-> skipNext]
    ELSE IF ~apiOk
    THEN [ok |-> FALSE, resolution |-> current, skipNext |-> skipNext]
    ELSE [ok |-> TRUE, resolution |-> r, skipNext |-> skipNext + 2]

kc_mode_params_for_resolution(modes, r) ==
    LET hits == {i \in 1..Len(modes) : modes[i].r.w = r.w /\ modes[i].r.h = r.h}
    IN  IF hits = {}
        THEN [r |-> r, color |-> default_color_settings, video |-> default_video_settings]
        ELSE modes[CHOOSE i \in hits : \A j \in hits : i <= j]

\* The parameters kc_apply_mode_parameters hands to the card's setters.
kc_apply_mode_parameters(modes, r) ==
    LET p == kc_mode_params_for_resolution(modes, r)
    IN  [video |-> p.video, color |-> p.color]

\* aliased(r): the resolution to use in place of r. forceArg is the resolution
\* it asks kc_force_capture_input_resolution for (NoRes when it asks for none).
aliased(r, aliases, current, apiOk, skipNext) ==
    LET aliasIdx == kc_alias_resolution_index(aliases, r)
        forced == kc_force_capture_input_resolution(r, current, apiOk, skipNext)
    IN  IF aliasIdx >= 0
        THEN IF ~forced.ok
             THEN [newRes |-> r, isAliased |-> FALSE, forceArg |-> r,
                   resolution |-> forced.resolution, skipNext |-> forced.skipNext]
             ELSE [newRes |-> aliases[aliasIdx + 1].to, isAliased |-> TRUE, forceArg |-> r,
                   resolution |-> forced.resolution, skipNext |-> forced.skipNext]
        ELSE [newRes |-> r, isAliased |-> FALSE, forceArg |-> NoRes,
              resolution |-> current, skipNext |-> skipNext]

\* Mutant: the loss of signal is reported without the flag being taken back.
kc_get_next_capture_event_keeps_lost(s) ==
    LET keep(e) == [event |-> e, receiving |-> s.receiving, invalid |-> s.invalid,
                    lost |-> s.lost, becameInvalid |-> s.becameInvalid]
    IN  IF s.err THEN keep("CEVENT_UNRECOVERABLE_ERROR")
        ELSE IF s.newMode
        THEN [event |-> "CEVENT_NEW_VIDEO_MODE", receiving |-> TRUE, invalid |-> FALSE,
              lost |-> s.lost, becameInvalid |-> s.becameInvalid]
        ELSE IF s.lost
        THEN [event |-> "CEVENT_NO_SIGNAL", receiving |-> FALSE, invalid |-> s.invalid,
              lost |-> s.lost, becameInvalid |-> s.becameInvalid]
        ELSE IF ~s.receiving THEN keep("CEVENT_SLEEP")
        ELSE IF s.becameInvalid
        THEN [event |-> "CEVENT_INVALID_SIGNAL", receiving |-> FALSE, invalid |-> TRUE,
              lost |-> s.lost, becameInvalid |-> FALSE]
        ELSE IF s.invalid THEN keep("CEVENT_SLEEP")
        ELSE IF s.captured # s.processed THEN keep("CEVENT_NEW_FRAME")
        ELSE keep("CEVENT_NONE")

\* Mutant: the error is tested after the new video mode.
kc_get_next_capture_event_mode_first(s) ==
    LET keep(e) == [event |-> e, receiving |-> s.receiving, invalid |-> s.invalid,
                    lost |-> s.lost, becameInvalid |-> s.becameInvalid]
    IN  IF s.newMode
        THEN [event |-> "CEVENT_NEW_VIDEO_MODE", receiving |-> TRUE, invalid |-> FALSE,
              lost |-> s.lost, becameInvalid |-> s.becameInvalid]
        ELSE IF s.err THEN keep("CEVENT_UNRECOVERABLE_ERROR")
        ELSE IF s.lost
        THEN [event |-> "CEVENT_NO_SIGNAL", receiving |-> FALSE, invalid |-> s.invalid,
              lost |-> FALSE, becameInvalid |-> s.becameInvalid]
        ELSE IF ~s.receiving THEN keep("CEVENT_SLEEP")
        ELSE IF s.becameInvalid
        THEN [event |-> "CEVENT_INVALID_SIGNAL", receiving |-> FALSE, invalid |-> TRUE,
              lost |-> s.lost, becameInvalid |-> FALSE]
        ELSE IF s.invalid THEN keep("CEVENT_SLEEP")
        ELSE IF s.captured # s.processed THEN keep("CEVENT_NEW_FRAME")
        ELSE keep("CEVENT_NONE")

\* Mutant: a frame not yet processed is reported before the signal is looked
\* at.
kc_get_next_capture_event_frame_first(s) ==
    LET keep(e) == [event |-> e, receiving |-> s.receiving, invalid |-> s.invalid,
                    lost |-> s.lost, becameInvalid |-> s.becameInvalid]
    IN  IF s.err THEN keep("CEVENT_UNRECOVERABLE_ERROR")
        ELSE IF s.newMode
        THEN [event |-> "CEVENT_NEW_VIDEO_MODE", receiving |-> TRUE, invalid |-> FALSE,
              lost |-> s.lost, becameInvalid |-> s.becameInvalid]
        ELSE IF s.lost
        THEN [event |-> "CEVENT_NO_SIGNAL", receiving |-> FALSE, invalid |-> s.invalid,
              lost |-> FALSE, becameInvalid |-> s.becameInvalid]
        ELSE IF s.captured # s.processed THEN keep("CEVENT_NEW_FRAME")
        ELSE IF ~s.receiving THEN keep("CEVENT_SLEEP")
        ELSE IF s.becameInvalid
        THEN [event |-> "CEVENT_INVALID_SIGNAL", receiving |-> FALSE, invalid |-> TRUE,
              lost |-> s.lost, becameInvalid |-> FALSE]
        ELSE IF s.invalid THEN keep("CEVENT_SLEEP")
        ELSE keep("CEVENT_NONE")

\* Mutant: a captured frame is not reported.
kc_get_next_capture_event_without_frames(s) ==
    LET keep(e) == [event |-> e, receiving |-> s.receiving, invalid |-> s.invalid,
                    lost |-> s.lost, becameInvalid |-> s.becameInvalid]
    IN  IF s.err THEN keep("CEVENT_UNRECOVERABLE_ERROR")
        ELSE IF s.newMode
        THEN [event |-> "CEVENT_NEW_VIDEO_MODE", receiving |-> TRUE, invalid |-> FALSE,
              lost |-> s.lost, becameInvalid |-> s.becameInvalid]
        ELSE IF s.lost
        THEN [event |-> "CEVENT_NO_SIGNAL", receiving |-> FALSE, invalid |-> s.invalid,
              lost |-> FALSE, becameInvalid |-> s.becameInvalid]
        ELSE IF ~s.receiving THEN keep("CEVENT_SLEEP")
        ELSE IF s.becameInvalid
        THEN [event |-> "CEVENT_INVALID_SIGNAL", receiving |-> FALSE, invalid |-> TRUE,
              lost |-> s.lost, becameInvalid |-> FALSE]
        ELSE IF s.invalid THEN keep("CEVENT_SLEEP")
        ELSE keep("CEVENT_NONE")

\* Mutant: a new frame is reported when there is no event at all.
kc_get_next_capture_event_frame_for_none(s) ==
    LET keep(e) == [event |-> e, receiving |-> s.receiving, invalid |-> s.invalid,
                    lost |-> s.lost, becameInvalid |-> s.becameInvalid]
    IN  IF s.err THEN keep("CEVENT_UNRECOVERABLE_ERROR")
        ELSE IF s.newMode
        THEN [event |-> "CEVENT_NEW_VIDEO_MODE", receiving |-> TRUE, invalid |-> FALSE,
              lost |-> s.lost, becameInvalid |-> s.becameInvalid]
        ELSE IF s.lost
        THEN [event |-> "CEVENT_NO_SIGNAL", receiving |-> FALSE, invalid |-> s.invalid,
              lost |-> FALSE, becameInvalid |-> s.becameInvalid]
        ELSE IF ~s.receiving THEN keep("CEVENT_SLEEP")
        ELSE IF s.becameInvalid
        THEN [event |-> "CEVENT_INVALID_SIGNAL", receiving |-> FALSE, invalid |-> TRUE,
              lost |-> s.lost, becameInvalid |-> FALSE]
        ELSE IF s.invalid THEN keep("CEVENT_SLEEP")
        ELSE keep("CEVENT_NEW_FRAME")

\* The event kc_get_next_capture_event returns and the flags it leaves, s
\* being the flags and counters it reads.
kc_get_next_capture_event(s) ==
    LET keep(e) == [event |-> e, receiving |-> s.receiving, invalid |-> s.invalid,
                    lost |-> s.lost, becameInvalid |-> s.becameInvalid]
    IN  IF s.err THEN keep("CEVENT_UNRECOVERABLE_ERROR")
        ELSE IF s.newMode
        THEN [event |-> "CEVENT_NEW_VIDEO_MODE", receiving |-> TRUE, invalid |-> FALSE,
              lost |-> s.lost, becameInvalid |-> s.becameInvalid]
        ELSE IF s.lost
        THEN [event |-> "CEVENT_NO_SIGNAL", receiving |-> FALSE, invalid |-> s.invalid,
              lost |-> FALSE, becameInvalid |-> s.becameInvalid]
        ELSE IF ~s.receiving THEN keep("CEVENT_SLEEP")
        ELSE IF s.becameInvalid
        THEN [event |-> "CEVENT_INVALID_SIGNAL", receiving |-> FALSE, invalid |-> TRUE,
              lost |-> s.lost, becameInvalid |-> FALSE]
        ELSE IF s.invalid THEN keep("CEVENT_SLEEP")
        ELSE IF s.captured # s.processed THEN keep("CEVENT_NEW_FRAME")
        ELSE keep("CEVENT_NONE")

----------------------------------------------------------------------------
\* History variables

\* The longest run of back-to-back frames followed from start-up.
MaxFrameRun == 4

\* What lastStatusCall records of a call: its argument, the window there was
\* and the window's function it called; tick changes with every call.
StatusCall(receivingASignal, window, sent, tick) ==
    [receivingASignal |-> receivingASignal, window |-> window, sent |-> sent, tick |-> tick]
NoStatusCall == StatusCall(FALSE, "nullptr", "nothing", 0)

\* What sinceProcessed records of a frame_captured call that took the mutex.
outcome(exitRequested, frame, buffer) ==
    IF frame_rejected(exitRequested, frame, buffer) THEN "rejected" ELSE "stored"

\* The value of onFrameRun once the run from start-up has been broken.
Void == MaxFrameRun + 1

\* What lastCall records of a call: the setter and its argument, whether it
\* called the card, whether the card's call succeeded, and what the setter
\* returned; tick changes with every call.
Call(op, arg, apiCalled, apiOk, ok) ==
    [op |-> op, arg |-> arg, apiCalled |-> apiCalled, apiOk |-> apiOk, ok |-> ok,
     tick |-> 1 - lastCall.tick]
NoCall ==
    [op |-> "none", arg |-> 0, apiCalled |-> FALSE, apiOk |-> FALSE, ok |-> FALSE, tick |-> 0]

\* What lastModeUpdate records: the arguments of update_known_mode_params (a
\* null pointer as cNull or vNull), and the resolution it signalled as a newly
\* known mode (NoRes when it signalled none).
ModeUpdate(r, cNull, c, vNull, v, signalled) ==
    [r |-> r, cNull |-> cNull, c |-> c, vNull |-> vNull, v |-> v, signalled |-> signalled]
NoModeUpdate ==
    ModeUpdate(NoRes, TRUE, default_color_settings, TRUE, default_video_settings, NoRes)

\* What lastAliasCall records: the function called, the list it was given,
\* whether it asked the engine to switch the resolution and to which (NoRes
\* when it did not), and what it left of the state it reads.
NoAliasCall ==
    [op |-> "none", list |-> <<>>, switchTo |-> NoRes, requested |-> FALSE, left |-> <<>>]

Res3(w, h, bpp) == [w |-> w, h |-> h, bpp |-> bpp]

NoBorder == [top |-> 0, bottom |-> 0, left |-> 0, right |-> 0]

\* What lastScale records of a call of ks_scale_frame: the frame's resolution,
\* whether a video was being recorded, the size the settings ask for before
\* it is held to the limits (computed) and after (target), how the call went
\* (outcome), which of the two filters it invoked and its name, the inner
\* rectangle and the border of the aspect padding, and the size of the image
\* written to the output buffer.
NoScale ==
    [frame |-> Res3(0, 0, 0), recording |-> FALSE, computed |-> NoRes,
     target |-> Res3(0, 0, 0), outcome |-> "none", invoked |-> "none", filter |-> "none",
     padded |-> Res3(0, 0, 0), border |-> NoBorder, size |-> NoRes]

\* What lastConversion records: the pixel format the capture unit reported,
\* the frame's bits per pixel, and the conversion handed to cv::cvtColor.
NoConversion == [format |-> "none", bpp |-> 0, conversionType |-> "none"]

\* A file on the disk: whether it is there, and its lines, each the list of
\* the fields the commas divide it into.
NoFile == [exists |-> FALSE, rows |-> <<>>]
File(rows) == [exists |-> TRUE, rows |-> rows]

\* A field of a line: a number in decimal digits, or some other text.
Number(n) == [number |-> TRUE, n |-> n, text |-> ""]
Word(text) == [number |-> FALSE, n |-> 0, text |-> text]

\* QString::toUInt and QString::toInt: the number the text spells, 0 when it
\* spells none of the kind.
toUInt(field) == IF field.number /\ field.n >= 0 THEN field.n ELSE 0
toInt(field) == IF field.number THEN field.n ELSE 0

\* What lastDisk records of a save or a load: the function, whether it
\* returned true, the message it showed, whether it broadcast to the GUI; of
\* a load, the rows read, whether a row had a wrong number of fields or a
\* block was not laid out as it should be (badCount), whether a field that
\* should be a number was not a positive one (badField) and whether the file
\* ended within a block (cutShort); of a save, the step that failed, the
\* file as it was before and the list saved.
NoDisk ==
    [tick |-> 0, op |-> "none", ok |-> TRUE, shown |-> "none", broadcast |-> FALSE,
     badCount |-> FALSE, badField |-> FALSE, cutShort |-> FALSE, failed |-> "none",
     before |-> NoFile, saved |-> <<>>, read |-> <<>>]

Disk(op, ok, shown, broadcast) ==
    [NoDisk EXCEPT !.tick = 1 - lastDisk.tick, !.op = op, !.ok = ok, !.shown = shown,
                   !.broadcast = broadcast]

\* A signal callback was delivered.
Delivered(cb) == cbSincePoll' = cbSincePoll \cup {cb}

----------------------------------------------------------------------------
\* The state kc_initialize_capturer leaves: the frame buffer allocated, the
\* callbacks registered, the capture started, one alias and one stored mode.

\* All but the counters and the flags kc_get_next_capture_event reads.
InitRest ==
    /\ SIGNAL_WOKE_UP = FALSE
    /\ SKIP_NEXT_NUM_FRAMES = 0
    /\ FRAME_BUFFER = [pixelsNull |-> FALSE, r |-> [w |-> 0, h |-> 0, bpp |-> 0],
                       pixels |-> "none", copied |-> 0]
    /\ IS_ALIASED_INPUT_RESOLUTION = FALSE
    /\ ALIASES = <<[from |-> R800x600, to |-> R1024x768]>>
    /\ KNOWN_MODES = <<[r |-> R1024x768, color |-> StoredColorSettings,
                        video |-> StoredVideoSettings]>>
    /\ CAPTURE_IS_ACTIVE = TRUE
    /\ PROGRAM_EXIT_REQUESTED = FALSE
    /\ INPUT_OUTPUT_MUTEX = "free"
    /\ cardResolution \in VideoModes
    /\ cardParams = [video |-> default_video_settings, color |-> default_color_settings]
    /\ cardCallbacks = TRUE
    /\ cbPc = "idle"
    /\ cbFrame = NoFrame
    /\ mainPc = "poll"
    /\ event = "CEVENT_NONE"
    /\ cbSincePoll = {}
    /\ onFrameRun = 0
    /\ lastForceRequest = NoRes
    /\ lastApplyRequest = NoRes
    /\ INPUT_CHANNEL_IDX = 0
    /\ FRAME_SKIP = 0
    /\ CAPTURE_PIXEL_FORMAT = "RGB_PIXELFORMAT_888"
    /\ CAPTURE_COLOR_DEPTH = 32
    /\ cardSettings = [input |-> 0, frameDropping |-> 0, pixelFormat |-> "RGB_PIXELFORMAT_888"]
    /\ lastCall = NoCall
    /\ lastAliasCall = NoAliasCall
    /\ lastModeUpdate = NoModeUpdate
    /\ UPSCALE_FILTER = "Nearest"
    /\ DOWNSCALE_FILTER = "Nearest"
    /\ ASPECT_MODE = "native"
    /\ FORCE_ASPECT = TRUE
    /\ LATEST_OUTPUT_SIZE = [w |-> 0, h |-> 0, bpp |-> 0]
    /\ BASE_RESOLUTION = [w |-> 640, h |-> 480]
    /\ FORCE_BASE_RESOLUTION = FALSE
    /\ OUTPUT_SCALING = 100
    /\ FORCE_SCALING = FALSE
    /\ lastScale = NoScale
    /\ lastConversion = NoConversion
    /\ graphNodes = {}
    /\ graphEdges = {}
    /\ inputGateNodes = <<>>
    /\ filterChains = <<>>
    /\ cycleWarnings = 0
    /\ aliasFile = NoFile
    /\ aliasTmp = NoFile
    /\ modeFile = NoFile
    /\ modeTmp = NoFile
    /\ lastDisk = NoDisk
    /\ cb2Pc = "idle"
    /\ cb2Frame = NoFrame
    /\ sinceProcessed = {}
    /\ WINDOW = "nullptr"
    /\ windowSignalInfo = "none"
    /\ lastStatusCall = NoStatusCall

Init ==
    /\ CNT_FRAMES_PROCESSED = 0
    /\ CNT_FRAMES_CAPTURED = 0
    /\ CNT_FRAMES_SKIPPED = 0
    /\ RECEIVING_A_SIGNAL = TRUE
    /\ UNRECOVERABLE_CAPTURE_ERROR = FALSE
    /\ SIGNAL_IS_INVALID = FALSE
    /\ SIGNAL_WAS_LOST = FALSE
    /\ SIGNAL_BECAME_INVALID = FALSE
    /\ RECEIVED_NEW_VIDEO_MODE = FALSE
    /\ InitRest

----------------------------------------------------------------------------
\* The capture card's callbacks. The card delivers them one at a time, on a
\* thread of its own, while they are registered.

\* The card calls frame_captured with a frame.
frame_captured_call(f) ==
    /\ cardCallbacks
    /\ cbPc = "idle"
    /\ cbPc' = "fc_check"
    /\ cbFrame' = f
    /\ onFrameRun' = IF onFrameRun < MaxFrameRun /\ f \in ValidFrames
                     THEN onFrameRun ELSE Void
    /\ UNCHANGED engineVars
    /\ UNCHANGED <<counterVars, flagVars, modeVars, cardVars, SKIP_NEXT_NUM_FRAMES,
                   FRAME_BUFFER, PROGRAM_EXIT_REQUESTED, INPUT_OUTPUT_MUTEX, mainPc, event,
                   cbSincePoll>>

\* Mutant: a skipped frame is counted as captured too.
frame_captured_check_counts_skipped ==
    /\ cbPc = "fc_check"
    /\ IF frame_captured_skips(CNT_FRAMES_CAPTURED, CNT_FRAMES_PROCESSED)
       THEN /\ CNT_FRAMES_SKIPPED' = Wrap(CNT_FRAMES_SKIPPED + 1)
            /\ CNT_FRAMES_CAPTURED' = Wrap(CNT_FRAMES_CAPTURED + 1)
            /\ cbPc' = "idle"
            /\ cbFrame' = NoFrame
            /\ onFrameRun' = IF onFrameRun # Void THEN onFrameRun + 1 ELSE Void
       ELSE /\ cbPc' = "fc_lock"
            /\ UNCHANGED <<CNT_FRAMES_SKIPPED, CNT_FRAMES_CAPTURED, cbFrame, onFrameRun>>
    /\ UNCHANGED engineVars
    /\ UNCHANGED <<CNT_FRAMES_PROCESSED, flagVars, modeVars, cardVars,
                   SKIP_NEXT_NUM_FRAMES, FRAME_BUFFER, PROGRAM_EXIT_REQUESTED,
                   INPUT_OUTPUT_MUTEX, mainPc, event, cbSincePoll>>

\* frame_captured, ahead of the mutex: skip the frame and return, or go on.
frame_captured_check ==
    /\ cbPc = "fc_check"
    /\ IF frame_captured_skips(CNT_FRAMES_CAPTURED, CNT_FRAMES_PROCESSED)
       THEN /\ CNT_FRAMES_SKIPPED' = Wrap(CNT_FRAMES_SKIPPED + 1)
            /\ cbPc' = "idle"
            /\ cbFrame' = NoFrame
            /\ onFrameRun' = IF onFrameRun # Void THEN onFrameRun + 1 ELSE Void
       ELSE /\ cbPc' = "fc_lock"
            /\ UNCHANGED <<CNT_FRAMES_SKIPPED, cbFrame, onFrameRun>>
    /\ UNCHANGED engineVars
    /\ UNCHANGED <<CNT_FRAMES_PROCESSED, CNT_FRAMES_CAPTURED, flagVars, modeVars, cardVars,
                   SKIP_NEXT_NUM_FRAMES, FRAME_BUFFER, PROGRAM_EXIT_REQUESTED,
                   INPUT_OUTPUT_MUTEX, mainPc, event, cbSincePoll>>

\* Mutant: the frame is stored without the mutex being taken.
frame_captured_store_unlocked ==
    /\ cbPc = "fc_lock"
    /\ LET out == frame_captured_locked(PROGRAM_EXIT_REQUESTED, cbFrame, FRAME_BUFFER,
                                        CNT_FRAMES_CAPTURED)
       IN  /\ FRAME_BUFFER' = out.buffer
           /\ CNT_FRAMES_CAPTURED' = out.captured
    /\ cbPc' = "idle"
    /\ cbFrame' = NoFrame
    /\ onFrameRun' = IF onFrameRun # Void THEN onFrameRun + 1 ELSE Void
    /\ sinceProcessed' = sinceProcessed \cup {outcome(PROGRAM_EXIT_REQUESTED, cbFrame, FRAME_BUFFER)}
    /\ UNCHANGED engineVarsOfHandoff
    /\ UNCHANGED <<CNT_FRAMES_PROCESSED, CNT_FRAMES_SKIPPED, flagVars, modeVars, cardVars,
                   SKIP_NEXT_NUM_FRAMES, PROGRAM_EXIT_REQUESTED, INPUT_OUTPUT_MUTEX, mainPc,
                   event, cbSincePoll>>

\* frame_captured, from taking the mutex to the return.
frame_captured_store ==
    /\ cbPc = "fc_lock"
    /\ INPUT_OUTPUT_MUTEX = "free"
    /\ LET out == frame_captured_locked(PROGRAM_EXIT_REQUESTED, cbFrame, FRAME_BUFFER,
                                        CNT_FRAMES_CAPTURED)
       IN  /\ FRAME_BUFFER' = out.buffer
           /\ CNT_FRAMES_CAPTURED' = out.captured
    /\ cbPc' = "idle"
    /\ cbFrame' = NoFrame
    /\ onFrameRun' = IF onFrameRun # Void THEN onFrameRun + 1 ELSE Void
    /\ sinceProcessed' = sinceProcessed \cup {outcome(PROGRAM_EXIT_REQUESTED, cbFrame, FRAME_BUFFER)}
    /\ UNCHANGED engineVarsOfHandoff
    /\ UNCHANGED <<CNT_FRAMES_PROCESSED, CNT_FRAMES_SKIPPED, flagVars, modeVars, cardVars,
                   SKIP_NEXT_NUM_FRAMES, PROGRAM_EXIT_REQUESTED, INPUT_OUTPUT_MUTEX, mainPc,
                   event, cbSincePoll>>

\* The card's input changes to mode r and the card calls video_mode_changed.
video_mode_changed(r) ==
    /\ cardCallbacks
    /\ cbPc = "idle"
    /\ INPUT_OUTPUT_MUTEX = "free"
    /\ cardResolution' = r
    /\ IF PROGRAM_EXIT_REQUESTED
       THEN UNCHANGED <<SIGNAL_WOKE_UP, RECEIVED_NEW_VIDEO_MODE, SIGNAL_IS_INVALID>>
       ELSE /\ SIGNAL_WOKE_UP' = ~RECEIVING_A_SIGNAL
            /\ RECEIVED_NEW_VIDEO_MODE' = TRUE
            /\ SIGNAL_IS_INVALID' = FALSE
    /\ Delivered("video_mode_changed")
    /\ onFrameRun' = Void
    /\ UNCHANGED engineVars
    /\ UNCHANGED <<counterVars, RECEIVING_A_SIGNAL, UNRECOVERABLE_CAPTURE_ERROR,
                   SIGNAL_WAS_LOST, SIGNAL_BECAME_INVALID, modeVars, cardCallbacks,
                   CAPTURE_IS_ACTIVE, SKIP_NEXT_NUM_FRAMES, FRAME_BUFFER,
                   PROGRAM_EXIT_REQUESTED, INPUT_OUTPUT_MUTEX, cbPc, cbFrame, mainPc, event>>

invalid_signal ==
    /\ cardCallbacks
    /\ cbPc = "idle"
    /\ INPUT_OUTPUT_MUTEX = "free"
    /\ SIGNAL_IS_INVALID' = IF PROGRAM_EXIT_REQUESTED THEN SIGNAL_IS_INVALID ELSE TRUE
    /\ Delivered("invalid_signal")
    /\ onFrameRun' = Void
    /\ UNCHANGED engineVars
    /\ UNCHANGED <<counterVars, RECEIVING_A_SIGNAL, UNRECOVERABLE_CAPTURE_ERROR,
                   SIGNAL_WAS_LOST, SIGNAL_BECAME_INVALID, RECEIVED_NEW_VIDEO_MODE,
                   SIGNAL_WOKE_UP, modeVars, cardVars, SKIP_NEXT_NUM_FRAMES, FRAME_BUFFER,
                   PROGRAM_EXIT_REQUESTED, INPUT_OUTPUT_MUTEX, cbPc, cbFrame, mainPc, event>>

no_signal ==
    /\ cardCallbacks
    /\ cbPc = "idle"
    /\ INPUT_OUTPUT_MUTEX = "free"
    /\ SIGNAL_WAS_LOST' = TRUE
    /\ Delivered("no_signal")
    /\ onFrameRun' = Void
    /\ UNCHANGED engineVars
    /\ UNCHANGED <<counterVars, RECEIVING_A_SIGNAL, UNRECOVERABLE_CAPTURE_ERROR,
                   SIGNAL_IS_INVALID, SIGNAL_BECAME_INVALID, RECEIVED_NEW_VIDEO_MODE,
                   SIGNAL_WOKE_UP, modeVars, cardVars, SKIP_NEXT_NUM_FRAMES, FRAME_BUFFER,
                   PROGRAM_EXIT_REQUESTED, INPUT_OUTPUT_MUTEX, cbPc, cbFrame, mainPc, event>>

error ==
    /\ cardCallbacks
    /\ cbPc = "idle"
    /\ INPUT_OUTPUT_MUTEX = "free"
    /\ UNRECOVERABLE_CAPTURE_ERROR' = TRUE
    /\ Delivered("error")
    /\ onFrameRun' = Void
    /\ UNCHANGED engineVars
    /\ UNCHANGED <<counterVars, RECEIVING_A_SIGNAL, SIGNAL_IS_INVALID, SIGNAL_WAS_LOST,
                   SIGNAL_BECAME_INVALID, RECEIVED_NEW_VIDEO_MODE, SIGNAL_WOKE_UP, modeVars,
                   cardVars, SKIP_NEXT_NUM_FRAMES, FRAME_BUFFER, PROGRAM_EXIT_REQUESTED,
                   INPUT_OUTPUT_MUTEX, cbPc, cbFrame, mainPc, event>>

----------------------------------------------------------------------------
\* The main thread: the event loop and the shutdown.

\* Mutant: the new-mode flag is left set.
kc_apply_new_capture_resolution_keeps_flag ==
    \E apiOk \in BOOLEAN :
        LET a == aliased(cardResolution, ALIASES, cardResolution, apiOk,
                         SKIP_NEXT_NUM_FRAMES)
        IN  /\ IS_ALIASED_INPUT_RESOLUTION' = a.isAliased
            /\ cardResolution' = a.resolution
            /\ SKIP_NEXT_NUM_FRAMES' = a.skipNext
            /\ lastForceRequest' = a.forceArg
            /\ cardParams' = kc_apply_mode_parameters(KNOWN_MODES, a.newRes)
            /\ lastApplyRequest' = a.newRes
            /\ RECEIVED_NEW_VIDEO_MODE' = RECEIVED_NEW_VIDEO_MODE

\* kc_apply_new_capture_resolution: what the main loop runs on a new video
\* mode. Both of its queries of the card's resolution see the same mode.
kc_apply_new_capture_resolution ==
    \E apiOk \in BOOLEAN :
        LET a == aliased(cardResolution, ALIASES, cardResolution, apiOk,
                         SKIP_NEXT_NUM_FRAMES)
        IN  /\ IS_ALIASED_INPUT_RESOLUTION' = a.isAliased
            /\ cardResolution' = a.resolution
            /\ SKIP_NEXT_NUM_FRAMES' = a.skipNext
            /\ lastForceRequest' = a.forceArg
            /\ cardParams' = kc_apply_mode_parameters(KNOWN_MODES, a.newRes)
            /\ lastApplyRequest' = a.newRes
            /\ RECEIVED_NEW_VIDEO_MODE' = FALSE

\* One tick of the main loop, first half: take the mutex and ask for the next
\* capture event.
PollCaptureEvent ==
    /\ mainPc = "poll"
    /\ ~PROGRAM_EXIT_REQUESTED
    /\ INPUT_OUTPUT_MUTEX = "free"
    /\ INPUT_OUTPUT_MUTEX' = "main"
    /\ LET e == kc_get_next_capture_event(
                    [err |-> UNRECOVERABLE_CAPTURE_ERROR,
                     newMode |-> RECEIVED_NEW_VIDEO_MODE,
                     lost |-> SIGNAL_WAS_LOST,
                     receiving |-> RECEIVING_A_SIGNAL,
                     becameInvalid |-> SIGNAL_BECAME_INVALID,
                     invalid |-> SIGNAL_IS_INVALID,
                     captured |-> CNT_FRAMES_CAPTURED,
                     processed |-> CNT_FRAMES_PROCESSED])
       IN  /\ event' = e.event
           /\ RECEIVING_A_SIGNAL' = e.receiving
           /\ SIGNAL_IS_INVALID' = e.invalid
           /\ SIGNAL_WAS_LOST' = e.lost
           /\ SIGNAL_BECAME_INVALID' = e.becameInvalid
    /\ mainPc' = "handle"
    /\ cbSincePoll' = {}
    /\ UNCHANGED engineVars
    /\ UNCHANGED <<counterVars, UNRECOVERABLE_CAPTURE_ERROR, RECEIVED_NEW_VIDEO_MODE,
                   SIGNAL_WOKE_UP, modeVars, cardVars, SKIP_NEXT_NUM_FRAMES, FRAME_BUFFER,
                   PROGRAM_EXIT_REQUESTED, cbPc, cbFrame, onFrameRun>>

\* An unrecoverable error ends the loop.
HandleUnrecoverableError ==
    /\ mainPc = "handle"
    /\ event = "CEVENT_UNRECOVERABLE_ERROR"
    /\ mainPc' = "exited"
    /\ INPUT_OUTPUT_MUTEX' = "free"
    /\ onFrameRun' = Void
    /\ UNCHANGED engineVars
    /\ UNCHANGED <<counterVars, flagVars, modeVars, cardVars, SKIP_NEXT_NUM_FRAMES,
                   FRAME_BUFFER, PROGRAM_EXIT_REQUESTED, cbPc, cbFrame, event, cbSincePoll>>

HandleNewVideoMode ==
    /\ mainPc = "handle"
    /\ event = "CEVENT_NEW_VIDEO_MODE"
    /\ kc_apply_new_capture_resolution
    /\ mainPc' = "poll"
    /\ INPUT_OUTPUT_MUTEX' = "free"
    /\ onFrameRun' = Void
    /\ UNCHANGED engineVars
    /\ UNCHANGED <<counterVars, RECEIVING_A_SIGNAL, UNRECOVERABLE_CAPTURE_ERROR,
                   SIGNAL_IS_INVALID, SIGNAL_WAS_LOST, SIGNAL_BECAME_INVALID, SIGNAL_WOKE_UP,
                   ALIASES, KNOWN_MODES, cardCallbacks, CAPTURE_IS_ACTIVE, FRAME_BUFFER,
                   PROGRAM_EXIT_REQUESTED, cbPc, cbFrame, event, cbSincePoll>>

\* No signal, or an invalid one: the output is cleared and the GUI told.
HandleSignalLoss ==
    /\ mainPc = "handle"
    /\ event \in {"CEVENT_NO_SIGNAL", "CEVENT_INVALID_SIGNAL"}
    /\ mainPc' = "poll"
    /\ INPUT_OUTPUT_MUTEX' = "free"
    /\ onFrameRun' = Void
    /\ UNCHANGED engineVars
    /\ UNCHANGED <<counterVars, flagVars, modeVars, cardVars, SKIP_NEXT_NUM_FRAMES,
                   FRAME_BUFFER, PROGRAM_EXIT_REQUESTED, cbPc, cbFrame, event, cbSincePoll>>

\* A new frame: it is processed out of the frame buffer, then marked processed.
HandleNewFrame ==
    /\ mainPc = "handle"
    /\ event = "CEVENT_NEW_FRAME"
    /\ LET m == kc_mark_frame_buffer_as_processed(CNT_FRAMES_CAPTURED, SKIP_NEXT_NUM_FRAMES)
       IN  /\ CNT_FRAMES_PROCESSED' = m.processed
           /\ SKIP_NEXT_NUM_FRAMES' = m.skipNext
    /\ mainPc' = "poll"
    /\ INPUT_OUTPUT_MUTEX' = "free"
    /\ onFrameRun' = Void
    /\ sinceProcessed' = {}
    /\ UNCHANGED engineVarsOfHandoff
    /\ UNCHANGED <<CNT_FRAMES_CAPTURED, CNT_FRAMES_SKIPPED, flagVars, modeVars, cardVars,
                   FRAME_BUFFER, PROGRAM_EXIT_REQUESTED, cbPc, cbFrame, event, cbSincePoll>>

\* Nothing to do: the loop yields.
HandleIdle ==
    /\ mainPc = "handle"
    /\ event \in {"CEVENT_SLEEP", "CEVENT_NONE"}
    /\ mainPc' = "poll"
    /\ INPUT_OUTPUT_MUTEX' = "free"
    /\ UNCHANGED engineVars
    /\ UNCHANGED <<counterVars, flagVars, modeVars, cardVars, SKIP_NEXT_NUM_FRAMES,
                   FRAME_BUFFER, PROGRAM_EXIT_REQUESTED, cbPc, cbFrame, event, cbSincePoll,
                   onFrameRun>>

\* The user quits, or the loop has ended on an error: exit is requested.
RequestExit ==
    /\ mainPc \in {"poll", "exited"}
    /\ ~PROGRAM_EXIT_REQUESTED
    /\ PROGRAM_EXIT_REQUESTED' = TRUE
    /\ onFrameRun' = Void
    /\ UNCHANGED engineVars
    /\ UNCHANGED <<counterVars, flagVars, modeVars, cardVars, SKIP_NEXT_NUM_FRAMES,
                   FRAME_BUFFER, INPUT_OUTPUT_MUTEX, cbPc, cbFrame, mainPc, event,
                   cbSincePoll>>

\* stop_capture: stopOk tells whether the card's RGBStopCapture succeeds.
stop_capture(active, callbacks, stopOk) ==
    IF active /\ ~stopOk
    THEN [ok |-> FALSE, active |-> active, callbacks |-> callbacks]
    ELSE [ok |-> TRUE, active |-> FALSE, callbacks |-> FALSE]

kc_release_capturer(stopOk) ==
    /\ mainPc \in {"poll", "exited"}
    /\ PROGRAM_EXIT_REQUESTED
    /\ IF FRAME_BUFFER.pixelsNull
       THEN UNCHANGED <<CAPTURE_IS_ACTIVE, cardCallbacks, FRAME_BUFFER>>
       ELSE LET s == stop_capture(CAPTURE_IS_ACTIVE, cardCallbacks, stopOk)
            IN  /\ CAPTURE_IS_ACTIVE' = s.active
                /\ cardCallbacks' = s.callbacks
                /\ FRAME_BUFFER' = [FRAME_BUFFER EXCEPT !.pixelsNull = TRUE]
    /\ mainPc' = "released"
    /\ onFrameRun' = Void
    /\ UNCHANGED engineVars
    /\ UNCHANGED <<counterVars, flagVars, modeVars, cardResolution, SKIP_NEXT_NUM_FRAMES,
                   PROGRAM_EXIT_REQUESTED, INPUT_OUTPUT_MUTEX, cbPc, cbFrame, event,
                   cbSincePoll>>

----------------------------------------------------------------------------
\* Two specifications of the capture unit. Spec follows the frame handoff for
\* as many frames as it takes the counters to wrap around, with the card
\* losing its signal and changing modes, and the shutdown. SpecSignal follows
\* every signal callback and every event of the main loop, for the first few
\* frames.

Next ==
    \/ \E f \in Frames : frame_captured_call(f)
    \/ frame_captured_check
    \/ frame_captured_store
    \/ \E r \in VideoModes : video_mode_changed(r)
    \/ no_signal
    \/ PollCaptureEvent
    \/ HandleNewVideoMode
    \/ HandleSignalLoss
    \/ HandleNewFrame
    \/ HandleIdle
    \/ RequestExit
    \/ \E stopOk \in BOOLEAN : kc_release_capturer(stopOk)

Spec == Init /\ [][Next]_vars

\* The number of frames the card delivers under SpecSignal.
MaxSignalFrames == 2

frame_captured_call_few(f) ==
    /\ CNT_FRAMES_CAPTURED + CNT_FRAMES_SKIPPED < MaxSignalFrames
    /\ frame_captured_call(f)

NextSignal ==
    \/ \E f \in ValidFrames : frame_captured_call_few(f)
    \/ frame_captured_check
    \/ frame_captured_store
    \/ \E r \in VideoModes : video_mode_changed(r)
    \/ invalid_signal
    \/ no_signal
    \/ error
    \/ PollCaptureEvent
    \/ HandleUnrecoverableError
    \/ HandleNewVideoMode
    \/ HandleSignalLoss
    \/ HandleNewFrame
    \/ HandleIdle
    \/ RequestExit

SpecSignal == Init /\ [][NextSignal]_vars

----------------------------------------------------------------------------
\* Steps, as the properties below name them.

\* frame_captured returns without having taken the mutex.
FrameSkipStep == cbPc = "fc_check" /\ cbPc' = "idle"
\* frame_captured returns after its locked part.
FrameStoreStep == cbPc = "fc_lock" /\ cbPc' = "idle"
\* kc_get_next_capture_event is called and returns.
PollStep == mainPc = "poll" /\ mainPc' = "handle"
\* The main loop has handled the event e.
HandledStep(e) == mainPc = "handle" /\ event = e /\ mainPc' # "handle"

----------------------------------------------------------------------------
\* Properties of the frame handoff (under Spec)

\* C1, as claimed: after four back-to-back valid frames from start-up, with
\* nothing marked processed, captured = 4, processed = 0 and skipped = 3.
C1_FourFramesCaptureFour ==
    onFrameRun = 4 =>
        /\ CNT_FRAMES_CAPTURED = 4
        /\ CNT_FRAMES_PROCESSED = 0
        /\ CNT_FRAMES_SKIPPED = 3

\* C1, amended: after four back-to-back valid frames from start-up, with
\* nothing marked processed, captured = 1 (the frame accepted), processed = 0
\* and skipped = 3 (the three frames dropped, which are not counted as captured).
C1_FourFramesCaptureOne ==
    onFrameRun = 4 =>
        /\ CNT_FRAMES_CAPTURED = 1
        /\ CNT_FRAMES_PROCESSED = 0
        /\ CNT_FRAMES_SKIPPED = 3

C1_Witness ==
    /\ onFrameRun = 4
    /\ cbPc = "idle"
    /\ ~FRAME_BUFFER.pixelsNull
    /\ FRAME_BUFFER.pixels # "none"

\* C2: a frame_captured call that finds captured # processed adds one to
\* skipped (modulo the counter's width) and returns without taking the mutex
\* and without changing captured, processed, the frame buffer's pixels or its
\* resolution.
C2_SkippedFrameOnlyCounts ==
    [][(cbPc = "fc_check" /\ cbPc' # "fc_check"
            /\ CNT_FRAMES_CAPTURED # CNT_FRAMES_PROCESSED)
        => /\ FrameSkipStep
           /\ CNT_FRAMES_SKIPPED' = (CNT_FRAMES_SKIPPED + 1) % CounterModulus
           /\ UNCHANGED <<CNT_FRAMES_CAPTURED, CNT_FRAMES_PROCESSED, FRAME_BUFFER,
                          INPUT_OUTPUT_MUTEX>>]_vars

\* A frame has been skipped while the main loop held the mutex on the frame
\* in the buffer.
C2_Witness ==
    /\ CNT_FRAMES_SKIPPED = 1
    /\ cbPc = "idle"
    /\ INPUT_OUTPUT_MUTEX = "main"
    /\ event = "CEVENT_NEW_FRAME"
    /\ CNT_FRAMES_CAPTURED # CNT_FRAMES_PROCESSED

\* C3, as claimed: captured >= processed in every reachable state.
C3_CapturedAtLeastProcessed == CNT_FRAMES_CAPTURED >= CNT_FRAMES_PROCESSED

\* C3, amended: with the callbacks delivered one at a time, captured is in
\* every reachable state either equal to processed or one ahead of it modulo
\* the counter's width (so that it is below processed once it has wrapped).
C3_CapturedAtMostOneAhead ==
    \/ CNT_FRAMES_CAPTURED = CNT_FRAMES_PROCESSED
    \/ CNT_FRAMES_CAPTURED = (CNT_FRAMES_PROCESSED + 1) % CounterModulus

\* captured has wrapped around ahead of processed.
C3_Witness ==
    /\ CNT_FRAMES_CAPTURED = 0
    /\ CNT_FRAMES_PROCESSED = CounterModulus - 1

\* C4: when the main loop has polled a new frame and marks it processed,
\* captured = processed as kc_mark_frame_buffer_as_processed returns.
C4_MarkedFrameCatchesUp ==
    [][HandledStep("CEVENT_NEW_FRAME")
        => CNT_FRAMES_CAPTURED' = CNT_FRAMES_PROCESSED']_vars

\* A frame has been marked processed after a further frame was skipped.
C4_Witness ==
    /\ mainPc = "poll"
    /\ event = "CEVENT_NEW_FRAME"
    /\ CNT_FRAMES_PROCESSED = 1
    /\ CNT_FRAMES_CAPTURED = 1
    /\ CNT_FRAMES_SKIPPED = 1

\* C5: a frame_captured call that reaches its locked part and rejects the
\* frame (exit requested, null frame data or header, no frame buffer, or more
\* than 32 bits per pixel) adds one to captured and leaves the frame buffer's
\* pixels and resolution as they were.
C5_RejectedFrameStillCounts ==
    [][(FrameStoreStep
            /\ (\/ PROGRAM_EXIT_REQUESTED
                \/ cbFrame.dataNull
                \/ cbFrame.infoNull
                \/ FRAME_BUFFER.pixelsNull
                \/ cbFrame.biBitCount > 32))
        => /\ CNT_FRAMES_CAPTURED' = (CNT_FRAMES_CAPTURED + 1) % CounterModulus
           /\ FRAME_BUFFER' = FRAME_BUFFER]_vars

\* A frame was rejected after an earlier one had been stored and processed:
\* two frames were counted, and the buffer still holds the first.
C5_Witness ==
    /\ CNT_FRAMES_CAPTURED = 2
    /\ CNT_FRAMES_PROCESSED = 1
    /\ CNT_FRAMES_SKIPPED = 0
    /\ cbPc = "idle"
    /\ FRAME_BUFFER.pixels = "a"
    /\ FRAME_BUFFER.r = [w |-> 800, h |-> 600, bpp |-> 32]

----------------------------------------------------------------------------
\* Properties of the signal state and the events (under SpecSignal)

\* C6: with the alias 800 x 600 -> 1024 x 768 and the card reporting
\* 800 x 600, handling a new video mode asks the card to force 1024 x 768,
\* applies the mode parameters of 1024 x 768, and leaves 2 frames to skip.
C6_AliasedModeIsForced ==
    [][(HandledStep("CEVENT_NEW_VIDEO_MODE")
            /\ ALIASES = <<[from |-> R800x600, to |-> R1024x768]>>
            /\ cardResolution = R800x600
            /\ SKIP_NEXT_NUM_FRAMES = 0)
        => /\ lastForceRequest' = R1024x768
           /\ lastApplyRequest' = R1024x768
           /\ SKIP_NEXT_NUM_FRAMES' = 2]_vars

\* C7, as claimed: once kc_get_next_capture_event has returned the new video
\* mode event, the new-mode flag is consumed, the signal is being received
\* and is not invalid.
C7_NewModeConsumedByTheGetter ==
    (mainPc = "handle" /\ event = "CEVENT_NEW_VIDEO_MODE")
        => /\ ~RECEIVED_NEW_VIDEO_MODE
           /\ RECEIVING_A_SIGNAL
           /\ ~SIGNAL_IS_INVALID

\* C7, amended: kc_get_next_capture_event returns the new video mode event
\* with the signal marked received and not invalid, and leaves the new-mode
\* flag set; handling the event clears the flag, and the next call, with no
\* video_mode_changed callback since the event, does not return the event
\* again.
C7_NewModeConsumedByTheHandler ==
    [][/\ (PollStep /\ event' = "CEVENT_NEW_VIDEO_MODE")
            => (RECEIVING_A_SIGNAL' /\ ~SIGNAL_IS_INVALID' /\ RECEIVED_NEW_VIDEO_MODE')
       /\ HandledStep("CEVENT_NEW_VIDEO_MODE") => ~RECEIVED_NEW_VIDEO_MODE'
       /\ (PollStep /\ event = "CEVENT_NEW_VIDEO_MODE"
                /\ "video_mode_changed" \notin cbSincePoll)
            => event' # "CEVENT_NEW_VIDEO_MODE"]_vars

\* The new video mode has been handled, no callback has come since, and the
\* main loop is about to poll again.
C7_Witness ==
    /\ mainPc = "poll"
    /\ event = "CEVENT_NEW_VIDEO_MODE"
    /\ cbSincePoll = {}
    /\ ~PROGRAM_EXIT_REQUESTED
    /\ ~RECEIVED_NEW_VIDEO_MODE
    /\ lastApplyRequest # NoRes

OtherSignalCallbacks == {"no_signal", "video_mode_changed", "error"}

C9_InvalidSignalIsReported ==
    [][(PollStep /\ cbSincePoll = {"invalid_signal"}
            /\ event \in {"CEVENT_NONE", "CEVENT_NEW_FRAME"}
            /\ RECEIVING_A_SIGNAL
            /\ ~UNRECOVERABLE_CAPTURE_ERROR
            /\ ~RECEIVED_NEW_VIDEO_MODE
            /\ ~SIGNAL_WAS_LOST)
        => event' = "CEVENT_INVALID_SIGNAL"]_vars

\* C10: the error flag, once set by the error callback, stays set; every
\* poll from then on returns the unrecoverable-error event, whatever else is
\* pending, and changes none of the capture unit's counters, flags or buffer.
C10_ErrorIsAbsorbing ==
    [][/\ ("error" \in cbSincePoll' /\ "error" \notin cbSincePoll)
            => UNRECOVERABLE_CAPTURE_ERROR'
       /\ UNRECOVERABLE_CAPTURE_ERROR => UNRECOVERABLE_CAPTURE_ERROR'
       /\ (PollStep /\ UNRECOVERABLE_CAPTURE_ERROR)
            => (event' = "CEVENT_UNRECOVERABLE_ERROR" /\ UNCHANGED ingressVars)]_vars

\* The error event has been returned over a pending new mode, a lost signal
\* and an unprocessed frame.
C10_Witness ==
    /\ mainPc = "handle"
    /\ event = "CEVENT_UNRECOVERABLE_ERROR"
    /\ RECEIVED_NEW_VIDEO_MODE
    /\ SIGNAL_WAS_LOST
    /\ CNT_FRAMES_CAPTURED # CNT_FRAMES_PROCESSED

----------------------------------------------------------------------------
\* The aliases

\* The most SKIP_NEXT_NUM_FRAMES is let grow to.
MaxSkipNext == 2

AliasSet == {[from |-> f, to |-> t] : f \in VideoModes, t \in VideoModes}
\* The alias lists handed to the capture unit: none, one or two aliases.
AliasLists == {<<>>} \cup {<<a>> : a \in AliasSet} \cup {<<a, b>> : a, b \in AliasSet}

\* The main loop is between two ticks: the pipeline thread dispatches the
\* GUI's requests there.
BetweenTicks == mainPc = "poll" /\ INPUT_OUTPUT_MUTEX = "free"

\* What the state is to a call that replaces the aliases.
AliasCallView == <<ALIASES, cardResolution, RECEIVING_A_SIGNAL, SKIP_NEXT_NUM_FRAMES>>

\* The loop of kc_update_alias_resolutions: the `to` of the first alias whose
\* `from` is the current resolution, NoRes when there is none.
alias_of_current_resolution(aliases, currentRes) ==
    LET idx == kc_alias_resolution_index(aliases, currentRes)
    IN  IF idx >= 0 THEN aliases[idx + 1].to ELSE NoRes

\* kmain_change_capture_input_resolution: the engine is asked to switch to r.
kmain_change_capture_input_resolution(r, current, apiOk, skipNext) ==
    kc_force_capture_input_resolution(r, current, apiOk, skipNext)

\* The body of kc_update_alias_resolutions: the aliases it stores, whether it
\* asks for a switch of resolution and to which, and the card's resolution and
\* SKIP_NEXT_NUM_FRAMES as the switch leaves them.
update_alias_resolutions(aliases, receiving, current, apiOk, skipNext) ==
    LET to == alias_of_current_resolution(aliases, current)
        asks == receiving /\ to # NoRes
        f == kmain_change_capture_input_resolution(to, current, apiOk, skipNext)
    IN  [aliases |-> aliases,
         requested |-> asks,
         switchTo |-> IF asks THEN to ELSE NoRes,
         resolution |-> IF asks THEN f.resolution ELSE current,
         skipNext |-> IF asks THEN f.skipNext ELSE skipNext]

\* The user's aliases are handed to the capture unit.
kc_update_alias_resolutions(aliases) ==
    /\ BetweenTicks
    /\ SKIP_NEXT_NUM_FRAMES < MaxSkipNext
    /\ \E apiOk \in BOOLEAN :
          LET u == update_alias_resolutions(aliases, RECEIVING_A_SIGNAL, cardResolution,
                                            apiOk, SKIP_NEXT_NUM_FRAMES)
          IN  /\ ALIASES' = u.aliases
              /\ cardResolution' = u.resolution
              /\ SKIP_NEXT_NUM_FRAMES' = u.skipNext
              /\ lastForceRequest' = IF u.requested THEN u.switchTo ELSE lastForceRequest
              /\ lastAliasCall' = [op |-> "kc_update_alias_resolutions", list |-> aliases,
                                   switchTo |-> u.switchTo,
                                   requested |-> u.requested,
                                   left |-> <<u.aliases, u.resolution, RECEIVING_A_SIGNAL,
                                              u.skipNext>>]
    /\ UNCHANGED <<counterVars, flagVars, IS_ALIASED_INPUT_RESOLUTION, KNOWN_MODES, cardParams,
                   lastApplyRequest, cardCallbacks, CAPTURE_IS_ACTIVE, settingVars,
                   FRAME_BUFFER, PROGRAM_EXIT_REQUESTED, INPUT_OUTPUT_MUTEX, cbPc, cbFrame,
                   mainPc, event, cbSincePoll, onFrameRun>>
    /\ UNCHANGED <<lastModeUpdate, scalerVars, restVars>>

\* The area of a resolution, as the sort of kc_load_aliases compares it.
area(r) == r.w * r.h

\* std::sort by the area of `to`: any arrangement of the list in which the
\* areas do not decrease (the sort is not stable).
sorted_by_to_area(list) ==
    LET n == Len(list)
        perms == {p \in [1..n -> 1..n] : \A i, j \in 1..n : i # j => p[i] # p[j]}
        arranged(p) == [i \in 1..n |-> list[p[i]]]
    IN  {arranged(p) : p \in {q \in perms :
            \A i, j \in 1..n : i < j => area(list[q[i]].to) <= area(list[q[j]].to)}}

\* Lines with the width and the height of the source resolution in each
\* other's place.
alias_rows_height_first(aliases) ==
    [i \in 1..Len(aliases) |->
        <<Number(aliases[i].from.h), Number(aliases[i].from.w),
          Number(aliases[i].to.w), Number(aliases[i].to.h), Word("")>>]

\* The lines kc_save_aliases writes for the aliases: four numbers, each
\* followed by a comma, so that the line ends in an empty field.
alias_rows(aliases) ==
    [i \in 1..Len(aliases) |->
        <<Number(aliases[i].from.w), Number(aliases[i].from.h),
          Number(aliases[i].to.w), Number(aliases[i].to.h), Word("")>>]

\* The rows of a file as the parser hands them over: the lines that are not
\* blank, each without the empty field a trailing comma leaves.
csv_parse_c(file) ==
    LET lines == SelectSeq(file.rows, LAMBDA row : row # <<>>)
        fields(row) == IF row[Len(row)] = Word("") THEN SubSeq(row, 1, Len(row) - 1) ELSE row
    IN  [i \in 1..Len(lines) |-> fields(lines[i])]

\* kc_load_aliases reading the rows: whether one has other than four fields,
\* and the aliases the rows make.
alias_row_count_wrong(rowData) == \E i \in 1..Len(rowData) : Len(rowData[i]) # 4

aliasesFromDisk(rowData) ==
    [i \in 1..Len(rowData) |->
        [from |-> Res(toUInt(rowData[i][1]), toUInt(rowData[i][2])),
         to |-> Res(toUInt(rowData[i][3]), toUInt(rowData[i][4]))]]

\* Whether a field of the rows is not a positive integer.
alias_field_wrong(rowData) ==
    \E i \in 1..Len(rowData) : \E k \in 1..Len(rowData[i]) :
        ~rowData[i][k].number \/ rowData[i][k].n <= 0

\* kc_load_aliases, for a file with the rows rowData; automaticCall tells
\* whether the file is loaded at start-up and not on the user's request. The
\* card accepts the calls made in the course of one load, or refuses them.
kc_load_aliases(rowData, automaticCall) ==
    /\ BetweenTicks
    /\ SKIP_NEXT_NUM_FRAMES < MaxSkipNext
    /\ IF alias_row_count_wrong(rowData)
       THEN /\ lastDisk' = [Disk("kc_load_aliases", FALSE, "Data was not loaded", FALSE)
                               EXCEPT !.badCount = TRUE, !.read = rowData,
                                      !.badField = alias_field_wrong(rowData)]
            /\ UNCHANGED <<ALIASES, cardResolution, SKIP_NEXT_NUM_FRAMES, lastForceRequest,
                           lastAliasCall, IS_ALIASED_INPUT_RESOLUTION, cardParams,
                           lastApplyRequest, RECEIVED_NEW_VIDEO_MODE>>
       ELSE \E apiOk \in BOOLEAN : \E stored \in sorted_by_to_area(aliasesFromDisk(rowData)) :
              LET rows == aliasesFromDisk(rowData)
                  u == update_alias_resolutions(rows, RECEIVING_A_SIGNAL, cardResolution,
                                                apiOk, SKIP_NEXT_NUM_FRAMES)
                  a == aliased(u.resolution, stored, u.resolution, apiOk, u.skipNext)
              IN  /\ ALIASES' = stored
                  /\ lastDisk' = [Disk("kc_load_aliases", TRUE, "none", TRUE)
                                     EXCEPT !.badField = alias_field_wrong(rowData),
                                            !.read = rowData]
                  /\ IF automaticCall
                     THEN /\ cardResolution' = u.resolution
                          /\ SKIP_NEXT_NUM_FRAMES' = u.skipNext
                          /\ lastForceRequest' =
                                IF u.requested THEN u.switchTo ELSE lastForceRequest
                          /\ UNCHANGED <<IS_ALIASED_INPUT_RESOLUTION, cardParams,
                                         lastApplyRequest, RECEIVED_NEW_VIDEO_MODE>>
                     ELSE /\ cardResolution' = a.resolution
                          /\ SKIP_NEXT_NUM_FRAMES' = a.skipNext
                          /\ lastForceRequest' =
                                IF a.forceArg # NoRes THEN a.forceArg
                                ELSE IF u.requested THEN u.switchTo ELSE lastForceRequest
                          /\ IS_ALIASED_INPUT_RESOLUTION' = a.isAliased
                          /\ cardParams' = kc_apply_mode_parameters(KNOWN_MODES, a.newRes)
                          /\ lastApplyRequest' = a.newRes
                          /\ RECEIVED_NEW_VIDEO_MODE' = FALSE
                  /\ lastAliasCall' = [op |-> "kc_load_aliases", list |-> rows,
                                       switchTo |-> u.switchTo,
                                       requested |-> u.requested,
                                       left |-> <<stored, cardResolution', RECEIVING_A_SIGNAL,
                                                  SKIP_NEXT_NUM_FRAMES'>>]
    /\ UNCHANGED <<counterVars, RECEIVING_A_SIGNAL, UNRECOVERABLE_CAPTURE_ERROR,
                   SIGNAL_IS_INVALID, SIGNAL_WAS_LOST, SIGNAL_BECAME_INVALID, SIGNAL_WOKE_UP,
                   KNOWN_MODES, cardCallbacks, CAPTURE_IS_ACTIVE, settingVars, FRAME_BUFFER,
                   PROGRAM_EXIT_REQUESTED, INPUT_OUTPUT_MUTEX, cbPc, cbFrame, mainPc, event,
                   cbSincePoll, onFrameRun>>
    /\ UNCHANGED <<lastModeUpdate, lateVars, scalerVars, lastConversion, graphVars, fileVars>>

\* The alias lists found in files: none, one alias, two for one resolution,
\* two of one area the other way round, and two in falling order of area.
A(fw, fh, tw, th) == [from |-> Res(fw, fh), to |-> Res(tw, th)]

FiledAliasLists ==
    {<<>>,
     <<A(800, 600, 1024, 768)>>,
     <<A(800, 600, 1024, 768), A(800, 600, 800, 600)>>,
     <<A(1024, 768, 800, 600), A(800, 600, 800, 600)>>,
     <<A(1024, 768, 1024, 768), A(800, 600, 1024, 768)>>}

\* A file with a row of four fields and then one of three.
ShortRowData ==
    <<<<Number(1024), Number(768), Number(800), Number(600)>>,
      <<Number(800), Number(600), Number(1024)>>>>

\* A file with a row whose first field is no number.
JunkRowData == <<<<Word("abc"), Number(600), Number(1024), Number(768)>>>>

\* The aliases being replaced and loaded while the signal comes and goes.
NextAlias ==
    \/ \E list \in AliasLists : kc_update_alias_resolutions(list)
    \/ \E list \in FiledAliasLists : \E automaticCall \in BOOLEAN :
          kc_load_aliases(csv_parse_c(File(alias_rows(list))), automaticCall)
    \/ \E automaticCall \in BOOLEAN : kc_load_aliases(ShortRowData, automaticCall)
    \/ no_signal
    \/ PollCaptureEvent
    \/ HandleSignalLoss
    \/ HandleIdle

SpecAlias == Init /\ [][NextAlias]_vars

\* The aliases of the list whose `from` is r, by their place in the list.
aliases_from(list, r) == {i \in 1..Len(list) : list[i].from = r}
\* The last of them.
last_alias_from(list, r) ==
    list[CHOOSE i \in aliases_from(list, r) : \A j \in aliases_from(list, r) : j <= i]

\* C11: after the aliases have been replaced by a list, whatever the list,
\* the stored aliases hold at most one alias for any `from` resolution.
C11_OneAliasPerFrom ==
    lastAliasCall.op = "kc_update_alias_resolutions" =>
        \A i, j \in 1..Len(ALIASES) : ALIASES[i].from = ALIASES[j].from => i = j

\* C12: after a list has been loaded in which several aliases have the same
\* `from`, the last of them wins: the look-up of that `from` gives the `to` of
\* the last one, and so does the switch of resolution the load asked for.
C12_LastDuplicateWins ==
    lastAliasCall.op = "kc_load_aliases" =>
        /\ \A r \in VideoModes :
              aliases_from(lastAliasCall.list, r) # {} =>
                  ALIASES[kc_alias_resolution_index(ALIASES, r) + 1].to
                      = last_alias_from(lastAliasCall.list, r).to
        /\ lastAliasCall.requested =>
              \E r \in VideoModes :
                  /\ aliases_from(lastAliasCall.list, r) # {}
                  /\ lastAliasCall.switchTo = last_alias_from(lastAliasCall.list, r).to

\* C13: when the aliases are replaced by a list L and at once replaced by L
\* again, the second call asks for no switch of resolution and leaves the
\* aliases and the capture resolution as they were.
C13_SecondSetAliasesIsNoOp ==
    [][(/\ lastAliasCall.op = "kc_update_alias_resolutions"
        /\ lastAliasCall.left = AliasCallView
        /\ lastAliasCall'.op = "kc_update_alias_resolutions"
        /\ lastAliasCall'.list = lastAliasCall.list
        /\ BetweenTicks /\ BetweenTicks'
        /\ <<counterVars, flagVars, settingVars>>' = <<counterVars, flagVars, settingVars>>)
       => /\ ALIASES' = ALIASES
          /\ cardResolution' = cardResolution
          /\ ~lastAliasCall'.requested]_vars

----------------------------------------------------------------------------
\* The known modes and their parameters

\* Video settings whose vertical position is below 2.
LowVideoSettings ==
    [phase |-> 0, blackLevel |-> 8, horScale |-> 100, horPos |-> 112, verPos |-> 1]
BrightColorSettings ==
    [bright |-> 48, contr |-> 128, redBright |-> 64, greenBright |-> 64,
     blueBright |-> 64, redContr |-> 256, greenContr |-> 256, blueContr |-> 256]

\* The settings the user asks for.
VideoSettingsAsked == {StoredVideoSettings, LowVideoSettings}
ColorSettingsAsked == {StoredColorSettings, BrightColorSettings}

\* The place of r among the known modes, their number plus one when r is not
\* known: the value of idx at the label mode_exists, from 1.
known_mode_index(modes, r) ==
    LET hits == {i \in 1..Len(modes) : modes[i].r.w = r.w /\ modes[i].r.h = r.h}
    IN  IF hits = {} THEN Len(modes) + 1 ELSE CHOOSE i \in hits : \A j \in hits : i <= j

\* Mutant: the mode is added without looking for it first.
update_known_mode_params_always_adds(modes, r, cNull, c, vNull, v) ==
    LET idx == Len(modes) + 1
        added == Append(modes, [r |-> r, color |-> default_color_settings,
                                video |-> default_video_settings])
    IN  [modes |-> [added EXCEPT ![idx].color = IF cNull THEN @ ELSE c,
                                 ![idx].video = IF vNull THEN @ ELSE v],
         signalled |-> r]

\* update_known_mode_params: the known modes it leaves, and the resolution it
\* signals as newly known (NoRes when it signals none).
update_known_mode_params(modes, r, cNull, c, vNull, v) ==
    LET idx == known_mode_index(modes, r)
        isNew == idx > Len(modes)
        added == IF isNew
                 THEN Append(modes, [r |-> r, color |-> default_color_settings,
                                     video |-> default_video_settings])
                 ELSE modes
    IN  [modes |-> [added EXCEPT ![idx].color = IF cNull THEN @ ELSE c,
                                 ![idx].video = IF vNull THEN @ ELSE v],
         signalled |-> IF isNew THEN r ELSE NoRes]

\* The user sets the colour parameters; apiOk: whether the card takes them.
kc_set_capture_color_params(c, apiOk) ==
    /\ BetweenTicks
    /\ IF ~RECEIVING_A_SIGNAL
       THEN /\ UNCHANGED <<cardParams, KNOWN_MODES, lastModeUpdate>>
            /\ lastCall' = Call("kc_set_capture_color_params", 0, FALSE, FALSE, FALSE)
       ELSE LET u == update_known_mode_params(KNOWN_MODES, cardResolution, FALSE, c,
                                              TRUE, default_video_settings)
            IN  /\ cardParams' = [cardParams EXCEPT !.color = IF apiOk THEN c ELSE @]
                /\ KNOWN_MODES' = u.modes
                /\ lastModeUpdate' = ModeUpdate(cardResolution, FALSE, c, TRUE,
                                                default_video_settings, u.signalled)
                /\ lastCall' = Call("kc_set_capture_color_params", 0, TRUE, apiOk, TRUE)
    /\ UNCHANGED <<counterVars, flagVars, IS_ALIASED_INPUT_RESOLUTION, ALIASES,
                   lastForceRequest, lastApplyRequest, cardVars, INPUT_CHANNEL_IDX,
                   FRAME_SKIP, CAPTURE_PIXEL_FORMAT, CAPTURE_COLOR_DEPTH, cardSettings,
                   lastAliasCall, SKIP_NEXT_NUM_FRAMES, FRAME_BUFFER, PROGRAM_EXIT_REQUESTED,
                   INPUT_OUTPUT_MUTEX, cbPc, cbFrame, mainPc, event, cbSincePoll, onFrameRun>>
    /\ UNCHANGED <<scalerVars, restVars>>

\* The user sets the video parameters; apiOk: whether the card takes them.
kc_set_capture_video_params(v, apiOk) ==
    /\ BetweenTicks
    /\ IF ~RECEIVING_A_SIGNAL
       THEN /\ UNCHANGED <<cardParams, KNOWN_MODES, lastModeUpdate>>
            /\ lastCall' = Call("kc_set_capture_video_params", v.verPos, FALSE, FALSE, FALSE)
       ELSE LET u == update_known_mode_params(KNOWN_MODES, cardResolution, TRUE,
                                              default_color_settings, FALSE, v)
            IN  /\ cardParams' = [cardParams EXCEPT !.video = IF apiOk THEN v ELSE @]
                /\ KNOWN_MODES' = u.modes
                /\ lastModeUpdate' = ModeUpdate(cardResolution, TRUE, default_color_settings,
                                                FALSE, v, u.signalled)
                /\ lastCall' = Call("kc_set_capture_video_params", v.verPos, TRUE, apiOk, TRUE)
    /\ UNCHANGED <<counterVars, flagVars, IS_ALIASED_INPUT_RESOLUTION, ALIASES,
                   lastForceRequest, lastApplyRequest, cardVars, INPUT_CHANNEL_IDX,
                   FRAME_SKIP, CAPTURE_PIXEL_FORMAT, CAPTURE_COLOR_DEPTH, cardSettings,
                   lastAliasCall, SKIP_NEXT_NUM_FRAMES, FRAME_BUFFER, PROGRAM_EXIT_REQUESTED,
                   INPUT_OUTPUT_MUTEX, cbPc, cbFrame, mainPc, event, cbSincePoll, onFrameRun>>
    /\ UNCHANGED <<scalerVars, restVars>>

\* The user's settings being stored and applied while the card changes modes
\* and loses its signal.
NextModes ==
    \/ \E c \in ColorSettingsAsked : \E apiOk \in BOOLEAN : kc_set_capture_color_params(c, apiOk)
    \/ \E v \in VideoSettingsAsked : \E apiOk \in BOOLEAN : kc_set_capture_video_params(v, apiOk)
    \/ \E r \in VideoModes : video_mode_changed(r)
    \/ no_signal
    \/ PollCaptureEvent
    \/ HandleNewVideoMode
    \/ HandleSignalLoss
    \/ HandleIdle

SpecModes == Init /\ [][NextModes]_vars

\* A step in which a setter is called.
CallStep(op) == lastCall'.tick # lastCall.tick /\ lastCall'.op = op

\* The known modes whose resolution is r, by their place.
known_modes_of(modes, r) == {i \in 1..Len(modes) : modes[i].r = r}

\* C14: update_known_mode_params adds exactly one mode, with the card's
\* defaults, when the resolution is not known yet, and signals a new known
\* mode in that case only; it overwrites the parameters it was given and no
\* others, leaves every other mode alone, and never makes a second entry for a
\* resolution.
C14_UpsertAddsOnceAndOverwritesGiven ==
    [][(\/ CallStep("kc_set_capture_color_params")
        \/ CallStep("kc_set_capture_video_params")) /\ lastCall'.apiCalled
       => LET u == lastModeUpdate'
              old == KNOWN_MODES
              new == KNOWN_MODES'
              at == known_modes_of(old, u.r)
          IN  /\ Cardinality(known_modes_of(new, u.r)) = 1
              /\ \A i \in 1..Len(old) : i \notin at => new[i] = old[i]
              /\ IF at = {}
                 THEN /\ Len(new) = Len(old) + 1
                      /\ u.signalled = u.r
                      /\ new[Len(new)] =
                            [r |-> u.r,
                             color |-> IF u.cNull THEN default_color_settings ELSE u.c,
                             video |-> IF u.vNull THEN default_video_settings ELSE u.v]
                 ELSE /\ Len(new) = Len(old)
                      /\ u.signalled = NoRes
                      /\ \A i \in at :
                            new[i] = [r |-> u.r,
                                      color |-> IF u.cNull THEN old[i].color ELSE u.c,
                                      video |-> IF u.vNull THEN old[i].video ELSE u.v]]_vars

\* A mode has been added with the video parameters given and the card's
\* default colours, and a mode known before has had its colours overwritten
\* and its video parameters kept.
C14_Witness ==
    /\ Len(KNOWN_MODES) = 2
    /\ KNOWN_MODES[2] = [r |-> R800x600, color |-> default_color_settings,
                         video |-> LowVideoSettings]
    /\ KNOWN_MODES[1] = [r |-> R1024x768, color |-> BrightColorSettings,
                         video |-> StoredVideoSettings]
    /\ lastModeUpdate.signalled = NoRes
    /\ lastModeUpdate.r = R1024x768

\* C15: the card's vertical position is never set below 2, whether by an
\* adjustment of the vertical offset, by the video parameters being set, or by
\* the parameters of a stored mode being applied.
C15_VerPosNeverBelowTwo == cardParams.video.verPos >= 2

----------------------------------------------------------------------------
\* The setters that wrap a call of the card

\* The number of input channels. The header that sets MAX_INPUT_CHANNELS is
\* not among the sources; the model takes two channels.
MAX_INPUT_CHANNELS == 2

\* The limits the card reports for the video parameters: its least vertical
\* position is below 2.
minimum_video_settings ==
    [phase |-> 0, blackLevel |-> 1, horScale |-> 100, horPos |-> 110, verPos |-> 1]
maximum_video_settings ==
    [phase |-> 31, blackLevel |-> 255, horScale |-> 200, horPos |-> 114, verPos |-> 38]

\* What the setters are asked for.
ChannelsAsked == 0..(MAX_INPUT_CHANNELS + 1)
FrameDroppingAsked == {0, 1, 99}
BitDepthsAsked == {24, 16, 15}
VerticalDeltas == {0, -34, -35, 34}
HorizontalDeltas == {0, -2, 2}

max(a, b) == IF a > b THEN a ELSE b

\* What no setter but its own changes.
SetterFrame ==
    UNCHANGED <<scalerVars, restVars, counterVars, flagVars, IS_ALIASED_INPUT_RESOLUTION, ALIASES, KNOWN_MODES,
                lastApplyRequest, cardCallbacks, CAPTURE_IS_ACTIVE, lastAliasCall,
                lastModeUpdate, FRAME_BUFFER, PROGRAM_EXIT_REQUESTED, INPUT_OUTPUT_MUTEX,
                cbPc, cbFrame, mainPc, event, cbSincePoll, onFrameRun>>

kc_adjust_capture_vertical_offset(delta, apiOk) ==
    /\ BetweenTicks
    /\ LET newPos == cardParams.video.verPos + delta
       IN  IF delta = 0
           THEN /\ lastCall' = Call("kc_adjust_capture_vertical_offset", delta, FALSE, FALSE, TRUE)
                /\ UNCHANGED cardParams
           ELSE IF \/ newPos < max(2, minimum_video_settings.verPos)
                   \/ newPos > maximum_video_settings.verPos
           THEN /\ lastCall' = Call("kc_adjust_capture_vertical_offset", delta, FALSE, FALSE, FALSE)
                /\ UNCHANGED cardParams
           ELSE /\ lastCall' = Call("kc_adjust_capture_vertical_offset", delta, TRUE, apiOk, TRUE)
                /\ cardParams' = [cardParams EXCEPT !.video.verPos = IF apiOk THEN newPos ELSE @]
    /\ UNCHANGED <<INPUT_CHANNEL_IDX, FRAME_SKIP, CAPTURE_PIXEL_FORMAT, CAPTURE_COLOR_DEPTH,
                   cardSettings, cardResolution, SKIP_NEXT_NUM_FRAMES, lastForceRequest>>
    /\ SetterFrame

kc_adjust_capture_horizontal_offset(delta, apiOk) ==
    /\ BetweenTicks
    /\ LET newPos == cardParams.video.horPos + delta
       IN  IF delta = 0
           THEN /\ lastCall' = Call("kc_adjust_capture_horizontal_offset", delta, FALSE, FALSE, TRUE)
                /\ UNCHANGED cardParams
           ELSE IF \/ newPos < minimum_video_settings.horPos
                   \/ newPos > maximum_video_settings.horPos
           THEN /\ lastCall' = Call("kc_adjust_capture_horizontal_offset", delta, FALSE, FALSE, FALSE)
                /\ UNCHANGED cardParams
           ELSE /\ lastCall' = Call("kc_adjust_capture_horizontal_offset", delta, TRUE, apiOk, TRUE)
                /\ cardParams' = [cardParams EXCEPT !.video.horPos = IF apiOk THEN newPos ELSE @]
    /\ UNCHANGED <<INPUT_CHANNEL_IDX, FRAME_SKIP, CAPTURE_PIXEL_FORMAT, CAPTURE_COLOR_DEPTH,
                   cardSettings, cardResolution, SKIP_NEXT_NUM_FRAMES, lastForceRequest>>
    /\ SetterFrame

kc_set_capture_frame_dropping(drop, apiOk) ==
    /\ BetweenTicks
    /\ drop < 100
    /\ lastCall' = Call("kc_set_capture_frame_dropping", drop, TRUE, apiOk, apiOk)
    /\ FRAME_SKIP' = IF apiOk THEN drop ELSE FRAME_SKIP
    /\ cardSettings' = [cardSettings EXCEPT !.frameDropping = IF apiOk THEN drop ELSE @]
    /\ UNCHANGED <<INPUT_CHANNEL_IDX, CAPTURE_PIXEL_FORMAT, CAPTURE_COLOR_DEPTH, cardParams,
                   cardResolution, SKIP_NEXT_NUM_FRAMES, lastForceRequest>>
    /\ SetterFrame

\* Mutant: the channel is not tested against the number of channels.
kc_set_capture_input_channel_any_channel(channel, apiOk) ==
    /\ BetweenTicks
    /\ lastCall' = Call("kc_set_capture_input_channel", channel, TRUE, apiOk, apiOk)
    /\ INPUT_CHANNEL_IDX' = IF apiOk THEN channel ELSE INPUT_CHANNEL_IDX
    /\ cardSettings' = [cardSettings EXCEPT !.input = IF apiOk THEN channel ELSE @]
    /\ UNCHANGED <<FRAME_SKIP, CAPTURE_PIXEL_FORMAT, CAPTURE_COLOR_DEPTH, cardParams,
                   cardResolution, SKIP_NEXT_NUM_FRAMES, lastForceRequest>>
    /\ SetterFrame

kc_set_capture_input_channel(channel, apiOk) ==
    /\ BetweenTicks
    /\ IF channel >= MAX_INPUT_CHANNELS
       THEN /\ lastCall' = Call("kc_set_capture_input_channel", channel, FALSE, FALSE, FALSE)
            /\ UNCHANGED <<INPUT_CHANNEL_IDX, cardSettings>>
       ELSE /\ lastCall' = Call("kc_set_capture_input_channel", channel, TRUE, apiOk, apiOk)
            /\ INPUT_CHANNEL_IDX' = IF apiOk THEN channel ELSE INPUT_CHANNEL_IDX
            /\ cardSettings' = [cardSettings EXCEPT !.input = IF apiOk THEN channel ELSE @]
    /\ UNCHANGED <<FRAME_SKIP, CAPTURE_PIXEL_FORMAT, CAPTURE_COLOR_DEPTH, cardParams,
                   cardResolution, SKIP_NEXT_NUM_FRAMES, lastForceRequest>>
    /\ SetterFrame

\* The pixel format and the colour depth kc_set_output_bit_depth picks for bpp.
pixel_format_of(bpp) ==
    CASE bpp = 24 -> [format |-> "RGB_PIXELFORMAT_888", depth |-> 32]
      [] bpp = 16 -> [format |-> "RGB_PIXELFORMAT_565", depth |-> 16]
      [] bpp = 15 -> [format |-> "RGB_PIXELFORMAT_555", depth |-> 16]

kc_set_output_bit_depth(bpp, apiOk) ==
    /\ BetweenTicks
    /\ bpp \in {24, 16, 15}
    /\ SKIP_NEXT_NUM_FRAMES < MaxSkipNext
    /\ lastCall' = Call("kc_set_output_bit_depth", bpp, TRUE, apiOk, apiOk)
    /\ IF apiOk
       THEN /\ CAPTURE_PIXEL_FORMAT' = pixel_format_of(bpp).format
            /\ CAPTURE_COLOR_DEPTH' = pixel_format_of(bpp).depth
            /\ cardSettings' = [cardSettings EXCEPT !.pixelFormat = pixel_format_of(bpp).format]
            /\ SKIP_NEXT_NUM_FRAMES' = SKIP_NEXT_NUM_FRAMES + 1
       ELSE UNCHANGED <<CAPTURE_PIXEL_FORMAT, CAPTURE_COLOR_DEPTH, cardSettings,
                        SKIP_NEXT_NUM_FRAMES>>
    /\ UNCHANGED <<INPUT_CHANNEL_IDX, FRAME_SKIP, cardParams, cardResolution,
                   lastForceRequest>>
    /\ SetterFrame

\* The user forces the capture resolution r.
force_capture_input_resolution(r, apiOk) ==
    /\ BetweenTicks
    /\ SKIP_NEXT_NUM_FRAMES < MaxSkipNext
    /\ LET f == kc_force_capture_input_resolution(r, cardResolution, apiOk,
                                                   SKIP_NEXT_NUM_FRAMES)
       IN  /\ cardResolution' = f.resolution
           /\ SKIP_NEXT_NUM_FRAMES' = f.skipNext
           /\ lastForceRequest' = r
           /\ lastCall' = Call("kc_force_capture_input_resolution", r.w,
                               r # cardResolution, apiOk, f.ok)
    /\ UNCHANGED <<INPUT_CHANNEL_IDX, FRAME_SKIP, CAPTURE_PIXEL_FORMAT, CAPTURE_COLOR_DEPTH,
                   cardSettings, cardParams>>
    /\ SetterFrame

\* The user at the settings, between the ticks of the main loop.
NextSetters ==
    \/ \E d \in VerticalDeltas : \E apiOk \in BOOLEAN :
          kc_adjust_capture_vertical_offset(d, apiOk)
    \/ \E d \in HorizontalDeltas : \E apiOk \in BOOLEAN :
          kc_adjust_capture_horizontal_offset(d, apiOk)
    \/ \E drop \in FrameDroppingAsked : \E apiOk \in BOOLEAN :
          kc_set_capture_frame_dropping(drop, apiOk)
    \/ \E channel \in ChannelsAsked : \E apiOk \in BOOLEAN :
          kc_set_capture_input_channel(channel, apiOk)
    \/ \E bpp \in BitDepthsAsked : \E apiOk \in BOOLEAN : kc_set_output_bit_depth(bpp, apiOk)
    \/ \E r \in VideoModes : \E apiOk \in BOOLEAN : force_capture_input_resolution(r, apiOk)

SpecSetters == Init /\ [][NextSetters]_vars

\* The engine's side of the settings.
EngineSettings ==
    <<CAPTURE_PIXEL_FORMAT, CAPTURE_COLOR_DEPTH, FRAME_SKIP, INPUT_CHANNEL_IDX,
      SKIP_NEXT_NUM_FRAMES>>

\* C16: the input channel set to MAX_INPUT_CHANNELS or more fails with no call
\* of the card and leaves the channel in use as it was; so does a failing call
\* of the card.
C16_BadChannelIsRejected ==
    [][CallStep("kc_set_capture_input_channel") =>
          /\ lastCall'.arg >= MAX_INPUT_CHANNELS =>
                /\ ~lastCall'.ok
                /\ ~lastCall'.apiCalled
                /\ INPUT_CHANNEL_IDX' = INPUT_CHANNEL_IDX
                /\ cardSettings' = cardSettings
          /\ (lastCall'.apiCalled /\ ~lastCall'.apiOk) =>
                /\ ~lastCall'.ok
                /\ INPUT_CHANNEL_IDX' = INPUT_CHANNEL_IDX]_vars

\* A channel out of range has been refused while another channel than the
\* first was in use.
C16_Witness ==
    /\ lastCall.op = "kc_set_capture_input_channel"
    /\ lastCall.arg >= MAX_INPUT_CHANNELS
    /\ ~lastCall.ok
    /\ INPUT_CHANNEL_IDX = 1

\* C17: when the card's call fails, a setter returns failure and the engine's
\* pixel format, colour depth, frame dropping, channel and SKIP_NEXT_NUM_FRAMES
\* stay as they were.
C17_FailedCallFailsTheSetter ==
    [][(lastCall'.tick # lastCall.tick /\ lastCall'.apiCalled /\ ~lastCall'.apiOk) =>
          /\ ~lastCall'.ok
          /\ EngineSettings' = EngineSettings]_vars

----------------------------------------------------------------------------
\* The scaler (src/src/scaler/scaler.cpp)

\* scaler.cpp:59
OUTPUT_BIT_DEPTH == 32

\* The limits of the output size. The header that sets them is not among the
\* sources; the model takes a width and a height of its own for each.
MIN_OUTPUT_WIDTH == 180
MIN_OUTPUT_HEIGHT == 130
MAX_OUTPUT_WIDTH == 2200
MAX_OUTPUT_HEIGHT == 1600
MAX_OUTPUT_BPP == 32

\* The least and the greatest resolution the card reports it can capture
\* (capture.cpp:1556-1596).
minimum_capture_resolution == Res(320, 200)
maximum_capture_resolution == Res(1600, 1200)

\* round(n * s) for the scaling s = pct / 100, as std::round rounds: halves
\* go away from zero.
round_scaled(n, pct) == (2 * n * pct + 100) \div 200

\* round(n * (a / b)), the same way.
round_ratio(n, a, b) == (2 * n * a + b) \div (2 * b)

RECURSIVE gcd(_, _)
gcd(a, b) == IF b = 0 THEN a ELSE gcd(b, a % b)

ks_resolution_to_aspect(r) == Res(r.w \div gcd(r.w, r.h), r.h \div gcd(r.w, r.h))

\* The first half of ks_output_resolution when no video is being recorded: the
\* base resolution, scaled. inRes: the card's capture resolution; cfg: the
\* scaler's settings.
computed_resolution(inRes, cfg) ==
    LET base == IF cfg.FORCE_BASE_RESOLUTION THEN cfg.BASE_RESOLUTION ELSE inRes
    IN  IF cfg.FORCE_SCALING
        THEN Res(round_scaled(base.w, cfg.OUTPUT_SCALING), round_scaled(base.h, cfg.OUTPUT_SCALING))
        ELSE Res(base.w, base.h)

\* rec: whether a video is being recorded, and its resolution.
ks_output_resolution(rec, inRes, cfg) ==
    IF rec.recording
    THEN Res3(rec.r.w, rec.r.h, OUTPUT_BIT_DEPTH)
    ELSE LET outRes == computed_resolution(inRes, cfg)
         IN  Res3(IF outRes.w > MAX_OUTPUT_WIDTH THEN MAX_OUTPUT_HEIGHT
                  ELSE IF outRes.w < MIN_OUTPUT_WIDTH THEN MIN_OUTPUT_WIDTH ELSE outRes.w,
                  IF outRes.h > MAX_OUTPUT_HEIGHT THEN MAX_OUTPUT_HEIGHT
                  ELSE IF outRes.h < MIN_OUTPUT_HEIGHT THEN MIN_OUTPUT_HEIGHT ELSE outRes.h,
                  OUTPUT_BIT_DEPTH)

\* The aspect ratio padded_resolution keeps, by the aspect mode.
aspect_of(sourceRes, mode) ==
    CASE mode = "native" -> ks_resolution_to_aspect(sourceRes)
      [] mode = "always_4_3" -> Res(4, 3)
      [] mode = "traditional_4_3" ->
            IF \/ sourceRes.w = 720 /\ sourceRes.h = 400
               \/ sourceRes.w = 640 /\ sourceRes.h = 400
               \/ sourceRes.w = 320 /\ sourceRes.h = 200
            THEN Res(4, 3)
            ELSE ks_resolution_to_aspect(sourceRes)

\* Mutant: the width is not held to the target's.
padded_resolution_too_wide(sourceRes, targetRes, mode) ==
    LET aspect == aspect_of(sourceRes, mode)
    IN  Res3(round_ratio(targetRes.h, aspect.w, aspect.h), targetRes.h, OUTPUT_BIT_DEPTH)

padded_resolution(sourceRes, targetRes, mode) ==
    LET aspect == aspect_of(sourceRes, mode)
        w == round_ratio(targetRes.h, aspect.w, aspect.h)
    IN  IF w > targetRes.w
        THEN Res3(targetRes.w, round_ratio(targetRes.w, aspect.h, aspect.w), OUTPUT_BIT_DEPTH)
        ELSE Res3(w, targetRes.h, OUTPUT_BIT_DEPTH)

\* The sides of the border, in C++ unsigned arithmetic put into ints.
border_padding(paddedRes, targetRes) ==
    [top |-> (targetRes.h - paddedRes.h) \div 2,
     bottom |-> (targetRes.h - paddedRes.h + 1) \div 2,
     left |-> (targetRes.w - paddedRes.w) \div 2,
     right |-> (targetRes.w - paddedRes.w + 1) \div 2]

\* What a scaling filter writes (opencv_scale): the inner rectangle, the
\* border around it, and the size of the image that results. cv::resize
\* writes an image of the size it is given; cv::copyMakeBorder one of the
\* size of its source and the border together.
opencv_scale(sourceRes, targetRes, forceAspect, mode) ==
    IF forceAspect
    THEN LET paddedRes == padded_resolution(sourceRes, targetRes, mode)
         IN  IF paddedRes.h = targetRes.h /\ paddedRes.w = targetRes.w
             THEN [padded |-> paddedRes, border |-> NoBorder,
                   size |-> Res(targetRes.w, targetRes.h)]
             ELSE LET p == border_padding(paddedRes, targetRes)
                  IN  [padded |-> paddedRes, border |-> p,
                       size |-> Res(p.left + paddedRes.w + p.right,
                                    p.top + paddedRes.h + p.bottom)]
    ELSE [padded |-> targetRes, border |-> NoBorder, size |-> Res(targetRes.w, targetRes.h)]

\* The filters the user can choose from (scaler.cpp:36-42).
SCALING_FILTERS == <<"Nearest", "Linear", "Area", "Cubic", "Lanczos">>

ks_scaler_for_name_string(name) ==
    IF \E i \in 1..Len(SCALING_FILTERS) : SCALING_FILTERS[i] = name
    THEN name
    ELSE SCALING_FILTERS[1]

\* The scaler's settings, as ks_output_resolution and ks_scale_frame read them.
ScalerSettings ==
    [UPSCALE_FILTER |-> UPSCALE_FILTER, DOWNSCALE_FILTER |-> DOWNSCALE_FILTER,
     ASPECT_MODE |-> ASPECT_MODE, FORCE_ASPECT |-> FORCE_ASPECT,
     BASE_RESOLUTION |-> BASE_RESOLUTION, FORCE_BASE_RESOLUTION |-> FORCE_BASE_RESOLUTION,
     OUTPUT_SCALING |-> OUTPUT_SCALING, FORCE_SCALING |-> FORCE_SCALING]

\* Whether the capture unit wants the frame at hand left out.
kc_should_current_frame_be_skipped == SKIP_NEXT_NUM_FRAMES > 0

\* The colour depth the capture unit expects of the frames.
kc_output_color_depth == CAPTURE_COLOR_DEPTH

\* Whether ks_scale_frame turns the frame away before it does anything.
unworkable_frame(frame, outputRes, skip, depth) ==
    \/ skip
    \/ frame.r.bpp \notin {16, 24, 32}
    \/ outputRes.w > MAX_OUTPUT_WIDTH
    \/ outputRes.h > MAX_OUTPUT_HEIGHT
    \/ frame.pixelsNull
    \/ frame.r.bpp # depth
    \/ frame.r.bpp > MAX_OUTPUT_BPP
    \/ frame.r.w < minimum_capture_resolution.w
    \/ frame.r.h < minimum_capture_resolution.h
    \/ frame.r.w > maximum_capture_resolution.w
    \/ frame.r.h > maximum_capture_resolution.h

\* Mutant: the downscaler is taken only when both sides shrink.
scale_frame_upscales_equal_sides(frame, rec, tearFree, inRes, cfg, skip, depth) ==
    LET outputRes == ks_output_resolution(rec, inRes, cfg)
        frameRes == Res3(frame.r.w, frame.r.h, 32)
        up == frameRes.w <= outputRes.w \/ frameRes.h <= outputRes.h
        scaler == IF up THEN cfg.UPSCALE_FILTER ELSE cfg.DOWNSCALE_FILTER
        s == opencv_scale(frameRes, outputRes, cfg.FORCE_ASPECT, cfg.ASPECT_MODE)
        r == [NoScale EXCEPT !.frame = frame.r, !.recording = rec.recording,
                             !.computed = computed_resolution(inRes, cfg),
                             !.target = outputRes]
    IN  IF unworkable_frame(frame, outputRes, skip, depth)
        THEN [r EXCEPT !.outcome = "ignored"]
        ELSE IF ~tearFree
        THEN [r EXCEPT !.outcome = "suppressed"]
        ELSE IF /\ ~cfg.FORCE_ASPECT \/ cfg.ASPECT_MODE = "native"
                /\ frameRes.w = outputRes.w
                /\ frameRes.h = outputRes.h
        THEN [r EXCEPT !.outcome = "copied", !.size = Res(frameRes.w, frameRes.h)]
        ELSE IF scaler = "null"
        THEN [r EXCEPT !.outcome = "unscaled", !.size = Res(frameRes.w, frameRes.h)]
        ELSE [r EXCEPT !.outcome = "scaled",
                       !.invoked = IF up THEN "upscaler" ELSE "downscaler",
                       !.filter = scaler, !.padded = s.padded, !.border = s.border,
                       !.size = s.size]

\* What ks_scale_frame does with a frame. tearFree: whether the anti-tearer
\* hands the frame on; skip, depth: what the capture unit says of the frame
\* at hand. The output buffer is allocated when the scaler is initialized,
\* and the alignment of the capture, asked for by a flag kept elsewhere, is
\* left out.
scale_frame(frame, rec, tearFree, inRes, cfg, skip, depth) ==
    LET outputRes == ks_output_resolution(rec, inRes, cfg)
        frameRes == Res3(frame.r.w, frame.r.h, 32)
        up == frameRes.w < outputRes.w \/ frameRes.h < outputRes.h
        scaler == IF up THEN cfg.UPSCALE_FILTER ELSE cfg.DOWNSCALE_FILTER
        s == opencv_scale(frameRes, outputRes, cfg.FORCE_ASPECT, cfg.ASPECT_MODE)
        r == [NoScale EXCEPT !.frame = frame.r, !.recording = rec.recording,
                             !.computed = computed_resolution(inRes, cfg),
                             !.target = outputRes]
    IN  IF unworkable_frame(frame, outputRes, skip, depth)
        THEN [r EXCEPT !.outcome = "ignored"]
        ELSE IF ~tearFree
        THEN [r EXCEPT !.outcome = "suppressed"]
        ELSE IF /\ ~cfg.FORCE_ASPECT \/ cfg.ASPECT_MODE = "native"
                /\ frameRes.w = outputRes.w
                /\ frameRes.h = outputRes.h
        THEN [r EXCEPT !.outcome = "copied", !.size = Res(frameRes.w, frameRes.h)]
        ELSE IF scaler = "null"
        THEN [r EXCEPT !.outcome = "unscaled", !.size = Res(frameRes.w, frameRes.h)]
        ELSE [r EXCEPT !.outcome = "scaled",
                       !.invoked = IF up THEN "upscaler" ELSE "downscaler",
                       !.filter = scaler, !.padded = s.padded, !.border = s.border,
                       !.size = s.size]

\* The frames the main loop hands to the scaler.
ScalerFrame(w, h, bpp, pixelsNull) == [r |-> Res3(w, h, bpp), pixelsNull |-> pixelsNull]

ScalerFrames ==
    {ScalerFrame(800, 600, 32, FALSE), ScalerFrame(1024, 768, 32, FALSE),
     ScalerFrame(720, 400, 32, FALSE), ScalerFrame(300, 200, 32, FALSE),
     ScalerFrame(1024, 768, 16, FALSE)}

\* Whether a video is being recorded, and at what resolution.
Recordings ==
    {[recording |-> FALSE, r |-> NoRes], [recording |-> TRUE, r |-> Res(640, 480)]}

AspectModes == {"native", "always_4_3", "traditional_4_3"}
BaseResolutionsAsked == {Res(640, 480), Res(650, 490)}
ScalingsAsked == {100, 25, 250}
UpscalersAsked == {"Bicubic"}
DownscalersAsked == {"Linear"}

\* What a call of the scaler leaves alone, whichever it is.
ScalerCallFrame ==
    UNCHANGED <<restVars, counterVars, flagVars, modeVars, cardVars, settingVars, lastAliasCall,
                lastModeUpdate, SKIP_NEXT_NUM_FRAMES, FRAME_BUFFER, PROGRAM_EXIT_REQUESTED,
                INPUT_OUTPUT_MUTEX, cbPc, cbFrame, mainPc, event, cbSincePoll, onFrameRun>>

ks_scale_frame(frame, rec, tearFree) ==
    /\ LET s == scale_frame(frame, rec, tearFree, cardResolution, ScalerSettings,
                            kc_should_current_frame_be_skipped, kc_output_color_depth)
       IN  /\ lastScale' = s
           /\ LATEST_OUTPUT_SIZE' =
                  CASE s.outcome \in {"copied", "scaled"} -> s.target
                    [] s.outcome = "unscaled" -> Res3(frame.r.w, frame.r.h, 32)
                    [] OTHER -> LATEST_OUTPUT_SIZE
    /\ UNCHANGED <<UPSCALE_FILTER, DOWNSCALE_FILTER, ASPECT_MODE, FORCE_ASPECT,
                   BASE_RESOLUTION, FORCE_BASE_RESOLUTION, OUTPUT_SCALING, FORCE_SCALING>>
    /\ ScalerCallFrame

ks_set_aspect_mode(mode) ==
    /\ BetweenTicks
    /\ ASPECT_MODE' = mode
    /\ lastScale' = NoScale
    /\ UNCHANGED <<UPSCALE_FILTER, DOWNSCALE_FILTER, FORCE_ASPECT, LATEST_OUTPUT_SIZE,
                   BASE_RESOLUTION, FORCE_BASE_RESOLUTION, OUTPUT_SCALING, FORCE_SCALING>>
    /\ ScalerCallFrame

ks_set_forced_aspect_enabled(state) ==
    /\ BetweenTicks
    /\ FORCE_ASPECT' = state
    /\ lastScale' = NoScale
    /\ UNCHANGED <<UPSCALE_FILTER, DOWNSCALE_FILTER, ASPECT_MODE, LATEST_OUTPUT_SIZE,
                   BASE_RESOLUTION, FORCE_BASE_RESOLUTION, OUTPUT_SCALING, FORCE_SCALING>>
    /\ ScalerCallFrame

ks_set_output_resolution_override_enabled(state) ==
    /\ BetweenTicks
    /\ FORCE_BASE_RESOLUTION' = state
    /\ lastScale' = NoScale
    /\ UNCHANGED <<UPSCALE_FILTER, DOWNSCALE_FILTER, ASPECT_MODE, FORCE_ASPECT,
                   LATEST_OUTPUT_SIZE, BASE_RESOLUTION, OUTPUT_SCALING, FORCE_SCALING>>
    /\ ScalerCallFrame

ks_set_output_base_resolution(r, originatesFromUser) ==
    /\ BetweenTicks
    /\ BASE_RESOLUTION' = IF FORCE_BASE_RESOLUTION /\ ~originatesFromUser
                          THEN BASE_RESOLUTION
                          ELSE r
    /\ lastScale' = NoScale
    /\ UNCHANGED <<UPSCALE_FILTER, DOWNSCALE_FILTER, ASPECT_MODE, FORCE_ASPECT,
                   LATEST_OUTPUT_SIZE, FORCE_BASE_RESOLUTION, OUTPUT_SCALING, FORCE_SCALING>>
    /\ ScalerCallFrame

ks_set_output_scaling(s) ==
    /\ BetweenTicks
    /\ OUTPUT_SCALING' = s
    /\ lastScale' = NoScale
    /\ UNCHANGED <<UPSCALE_FILTER, DOWNSCALE_FILTER, ASPECT_MODE, FORCE_ASPECT,
                   LATEST_OUTPUT_SIZE, BASE_RESOLUTION, FORCE_BASE_RESOLUTION, FORCE_SCALING>>
    /\ ScalerCallFrame

ks_set_output_scale_override_enabled(state) ==
    /\ BetweenTicks
    /\ FORCE_SCALING' = state
    /\ lastScale' = NoScale
    /\ UNCHANGED <<UPSCALE_FILTER, DOWNSCALE_FILTER, ASPECT_MODE, FORCE_ASPECT,
                   LATEST_OUTPUT_SIZE, BASE_RESOLUTION, FORCE_BASE_RESOLUTION, OUTPUT_SCALING>>
    /\ ScalerCallFrame

ks_set_upscaling_filter(name) ==
    /\ BetweenTicks
    /\ UPSCALE_FILTER' = ks_scaler_for_name_string(name)
    /\ lastScale' = NoScale
    /\ UNCHANGED <<DOWNSCALE_FILTER, ASPECT_MODE, FORCE_ASPECT, LATEST_OUTPUT_SIZE,
                   BASE_RESOLUTION, FORCE_BASE_RESOLUTION, OUTPUT_SCALING, FORCE_SCALING>>
    /\ ScalerCallFrame

ks_set_downscaling_filter(name) ==
    /\ BetweenTicks
    /\ DOWNSCALE_FILTER' = ks_scaler_for_name_string(name)
    /\ lastScale' = NoScale
    /\ UNCHANGED <<UPSCALE_FILTER, ASPECT_MODE, FORCE_ASPECT, LATEST_OUTPUT_SIZE,
                   BASE_RESOLUTION, FORCE_BASE_RESOLUTION, OUTPUT_SCALING, FORCE_SCALING>>
    /\ ScalerCallFrame

\* The main loop scaling frames, and the user at the scaler's settings between
\* its ticks.
NextScaler ==
    \/ \E frame \in ScalerFrames, rec \in Recordings, tearFree \in BOOLEAN :
          ks_scale_frame(frame, rec, tearFree)
    \/ \E mode \in AspectModes : ks_set_aspect_mode(mode)
    \/ \E state \in BOOLEAN : ks_set_forced_aspect_enabled(state)
    \/ \E state \in BOOLEAN : ks_set_output_resolution_override_enabled(state)
    \/ \E r \in BaseResolutionsAsked, originatesFromUser \in BOOLEAN :
          ks_set_output_base_resolution(r, originatesFromUser)
    \/ \E s \in ScalingsAsked : ks_set_output_scaling(s)
    \/ \E state \in BOOLEAN : ks_set_output_scale_override_enabled(state)
    \/ \E name \in UpscalersAsked : ks_set_upscaling_filter(name)
    \/ \E name \in DownscalersAsked : ks_set_downscaling_filter(name)

SpecScaler == Init /\ [][NextScaler]_vars

\* A frame got as far as the choice between copying and scaling.
Scaled == lastScale.outcome \in {"copied", "scaled", "unscaled"}

\* C18: when no video is being recorded, the target the scaler derives lies
\* within the limits on each axis, a computed width above the greatest width
\* becomes the greatest width, a computed height above the greatest height
\* the greatest height, and the target has 32 bits per pixel.
C18_TargetHeldToLimits ==
    (lastScale.outcome # "none" /\ ~lastScale.recording) =>
        /\ MIN_OUTPUT_WIDTH <= lastScale.target.w
        /\ lastScale.target.w <= MAX_OUTPUT_WIDTH
        /\ MIN_OUTPUT_HEIGHT <= lastScale.target.h
        /\ lastScale.target.h <= MAX_OUTPUT_HEIGHT
        /\ (lastScale.computed.w > MAX_OUTPUT_WIDTH => lastScale.target.w = MAX_OUTPUT_WIDTH)
        /\ (lastScale.computed.h > MAX_OUTPUT_HEIGHT => lastScale.target.h = MAX_OUTPUT_HEIGHT)
        /\ lastScale.target.bpp = 32

\* C19: a frame the scaler does not turn away leaves an image of exactly the
\* size of the derived target; the inner rectangle of the aspect padding is
\* no wider and no taller than the target, and with the border it makes up
\* the target, the top and the left taking the half of the difference rounded
\* down and the bottom and the right the half rounded up.
C19_OutputHasTargetSize ==
    Scaled =>
        LET t == lastScale.target
            p == lastScale.padded
            b == lastScale.border
            dw == t.w - p.w
            dh == t.h - p.h
        IN  /\ lastScale.size = Res(t.w, t.h)
            /\ LATEST_OUTPUT_SIZE = t
            /\ lastScale.outcome = "scaled" =>
                   /\ p.w <= t.w
                   /\ p.h <= t.h
                   /\ b.top + p.h + b.bottom = t.h
                   /\ b.left + p.w + b.right = t.w
                   /\ 2 * b.top <= dh /\ dh < 2 * b.top + 2
                   /\ 2 * b.bottom >= dh /\ dh > 2 * b.bottom - 2
                   /\ 2 * b.left <= dw /\ dw < 2 * b.left + 2
                   /\ 2 * b.right >= dw /\ dw > 2 * b.right - 2

\* A frame was scaled into a rectangle with an odd number of rows left over.
C19_Witness ==
    /\ lastScale.outcome = "scaled"
    /\ lastScale.border.top + 1 = lastScale.border.bottom
    /\ lastScale.border.top > 0
    /\ lastScale.size = Res(lastScale.target.w, lastScale.target.h)

\* Which of the two filters the sizes call for.
filter_called_for ==
    IF lastScale.frame.w < lastScale.target.w \/ lastScale.frame.h < lastScale.target.h
    THEN "upscaler"
    ELSE "downscaler"

\* C20 as claimed: for every frame that gets as far as the scaling, one of
\* the two filters is invoked, the upscaler if the frame is narrower or
\* shorter than the target and the downscaler otherwise, equal sizes included.
C20_OneScalerPerFrame == Scaled => lastScale.invoked = filter_called_for

\* C20, amended: a frame as large as the target is copied and neither filter
\* invoked when the aspect is not forced or the aspect mode is native; any
\* other frame that gets as far as the scaling has exactly one filter invoked,
\* the upscaler if it is narrower or shorter than the target and the
\* downscaler otherwise; a frame turned away or held back has none.
C20_CopiedOrOneScaler ==
    /\ Scaled =>
           IF /\ ~FORCE_ASPECT \/ ASPECT_MODE = "native"
              /\ lastScale.frame.w = lastScale.target.w
              /\ lastScale.frame.h = lastScale.target.h
           THEN lastScale.outcome = "copied" /\ lastScale.invoked = "none"
           ELSE /\ lastScale.outcome = "scaled"
                /\ lastScale.invoked = filter_called_for
                /\ lastScale.filter = IF lastScale.invoked = "upscaler"
                                      THEN UPSCALE_FILTER
                                      ELSE DOWNSCALE_FILTER
    /\ ~Scaled => lastScale.invoked = "none"

\* A frame as large as the target went through the downscaler.
C20_Witness ==
    /\ lastScale.outcome = "scaled"
    /\ lastScale.invoked = "downscaler"
    /\ lastScale.frame.w = lastScale.target.w
    /\ lastScale.frame.h = lastScale.target.h

----------------------------------------------------------------------------
\* The conversion to BGRA (scaler.cpp:404-452)

\* The pixel format the capture unit reports.
kc_pixel_format == CAPTURE_PIXEL_FORMAT

\* The conversion s_convert_frame_to_bgra picks. In the last branch the test
\* for 24 bits is not the else of the test for 32 bits: whatever the first
\* picked, the second picks again.
conversion_type(format, bpp) ==
    IF format = "RGB_PIXELFORMAT_565" THEN "CV_BGR5652BGRA"
    ELSE IF format = "RGB_PIXELFORMAT_555" THEN "CV_BGR5552BGRA"
    ELSE LET first == IF bpp = 32 THEN "CV_RGBA2BGRA" ELSE "0"
         IN  IF bpp = 24 THEN "CV_BGR2BGRA" ELSE "CV_BGR5652BGRA"

\* The frames handed to the conversion.
ConvertedFrames ==
    {ScalerFrame(800, 600, 32, FALSE), ScalerFrame(800, 600, 24, FALSE),
     ScalerFrame(800, 600, 16, FALSE)}

s_convert_frame_to_bgra(frame) ==
    /\ lastConversion' = [format |-> kc_pixel_format, bpp |-> frame.r.bpp,
                          conversionType |-> conversion_type(kc_pixel_format, frame.r.bpp)]
    /\ UNCHANGED <<counterVars, flagVars, modeVars, cardVars, settingVars, lastAliasCall,
                   lastModeUpdate, lateVars, scalerVars, graphVars, diskVars, SKIP_NEXT_NUM_FRAMES,
                   FRAME_BUFFER,
                   PROGRAM_EXIT_REQUESTED, INPUT_OUTPUT_MUTEX, cbPc, cbFrame, mainPc, event,
                   cbSincePoll, onFrameRun>>

\* Frames converted, and the user at the bit depth between the ticks.
NextConvert ==
    \/ \E frame \in ConvertedFrames : s_convert_frame_to_bgra(frame)
    \/ \E bpp \in BitDepthsAsked, apiOk \in BOOLEAN : kc_set_output_bit_depth(bpp, apiOk)

SpecConvert == Init /\ [][NextConvert]_vars

----------------------------------------------------------------------------
\* The filter graph (src/src/display/qt/dialogs/filter_graph_dialog.cpp)

\* The nodes the user can have in the graph: two input gates, two filters and
\* an output gate.
InputGates == {1, 2}
Filters == {3, 4}
OutputGates == {5}
GraphNodes == InputGates \cup Filters \cup OutputGates

filter_type(node) ==
    IF node \in InputGates THEN "input_gate"
    ELSE IF node \in OutputGates THEN "output_gate"
    ELSE "filter"

\* What a node's output edge is connected to, lowest number first.
connectedTo(node, edges) == {to \in GraphNodes : <<node, to>> \in edges}

Contains(chain, node) == \E i \in 1..Len(chain) : chain[i] = node

RECURSIVE traverse_filter_node(_, _, _)
RECURSIVE traverse_outgoing(_, _, _)

\* Mutant: the first loop met ends the traversal of the branches that follow.
traverse_outgoing_loop_ends_all(outgoing, accumulatedFilterChain, edges) ==
    IF outgoing = {}
    THEN [chains |-> <<>>, warnings |-> 0]
    ELSE LET first == CHOOSE n \in outgoing : \A o \in outgoing : n <= o
             a == traverse_filter_node(first, accumulatedFilterChain, edges)
             b == traverse_outgoing(outgoing \ {first}, accumulatedFilterChain, edges)
         IN  IF a.warnings > 0
             THEN a
             ELSE [chains |-> a.chains \o b.chains, warnings |-> a.warnings + b.warnings]

\* The loop over the connections of a node's output edge: the chains the
\* traversals add, and the warnings they show.
traverse_outgoing(outgoing, accumulatedFilterChain, edges) ==
    IF outgoing = {}
    THEN [chains |-> <<>>, warnings |-> 0]
    ELSE LET first == CHOOSE n \in outgoing : \A o \in outgoing : n <= o
             a == traverse_filter_node(first, accumulatedFilterChain, edges)
             b == traverse_outgoing(outgoing \ {first}, accumulatedFilterChain, edges)
         IN  [chains |-> a.chains \o b.chains, warnings |-> a.warnings + b.warnings]

\* Mutant: on meeting a loop the chain gathered so far is added to the list.
traverse_filter_node_lists_looped_chain(node, accumulatedFilterChain, edges) ==
    IF Contains(accumulatedFilterChain, node)
    THEN [chains |-> <<Append(accumulatedFilterChain, node)>>, warnings |-> 1]
    ELSE LET chain == Append(accumulatedFilterChain, node)
         IN  IF filter_type(node) = "output_gate"
             THEN [chains |-> <<chain>>, warnings |-> 0]
             ELSE traverse_outgoing(connectedTo(node, edges), chain, edges)

traverse_filter_node(node, accumulatedFilterChain, edges) ==
    IF Contains(accumulatedFilterChain, node)
    THEN [chains |-> <<>>, warnings |-> 1]
    ELSE LET chain == Append(accumulatedFilterChain, node)
         IN  IF filter_type(node) = "output_gate"
             THEN [chains |-> <<chain>>, warnings |-> 0]
             ELSE traverse_outgoing(connectedTo(node, edges), chain, edges)

RECURSIVE traverse_input_gates(_, _)
traverse_input_gates(gates, edges) ==
    IF gates = <<>>
    THEN [chains |-> <<>>, warnings |-> 0]
    ELSE LET a == traverse_filter_node(Head(gates), <<>>, edges)
             b == traverse_input_gates(Tail(gates), edges)
         IN  [chains |-> a.chains \o b.chains, warnings |-> a.warnings + b.warnings]

\* Mutant: the chains of the earlier recalculations are kept.
recalculate_filter_chains_keeps_old(chains, gates, edges) ==
    [chains |-> chains \o traverse_input_gates(gates, edges).chains,
     warnings |-> traverse_input_gates(gates, edges).warnings]

\* chains: the filter handler's list before the call, which the call empties
\* first.
recalculate_filter_chains(chains, gates, edges) ==
    [chains |-> <<>> \o traverse_input_gates(gates, edges).chains,
     warnings |-> traverse_input_gates(gates, edges).warnings]

\* What a call of the filter graph leaves alone.
GraphCallFrame ==
    UNCHANGED <<counterVars, flagVars, modeVars, cardVars, settingVars, lastAliasCall,
                lastModeUpdate, lateVars, scalerVars, lastConversion, diskVars, SKIP_NEXT_NUM_FRAMES,
                FRAME_BUFFER,
                PROGRAM_EXIT_REQUESTED, INPUT_OUTPUT_MUTEX, cbPc, cbFrame, mainPc, event,
                cbSincePoll, onFrameRun>>

\* The user adds a node from the menu. No chain is recalculated.
add_filter_node(node) ==
    /\ node \notin graphNodes
    /\ graphNodes' = graphNodes \cup {node}
    /\ inputGateNodes' = IF filter_type(node) = "input_gate"
                         THEN Append(inputGateNodes, node)
                         ELSE inputGateNodes
    /\ UNCHANGED <<graphEdges, filterChains, cycleWarnings>>
    /\ GraphCallFrame

\* The user connects the output edge of one node to the input edge of
\* another: the scene signals edgeConnectionAdded.
edgeConnectionAdded(from, to) ==
    /\ from \in graphNodes /\ to \in graphNodes
    /\ filter_type(from) # "output_gate"
    /\ filter_type(to) # "input_gate"
    /\ <<from, to>> \notin graphEdges
    /\ graphEdges' = graphEdges \cup {<<from, to>>}
    /\ LET c == recalculate_filter_chains(filterChains, inputGateNodes, graphEdges')
       IN  filterChains' = c.chains /\ cycleWarnings' = c.warnings
    /\ UNCHANGED <<graphNodes, inputGateNodes>>
    /\ GraphCallFrame

\* The user removes a connection: the scene signals edgeConnectionRemoved.
edgeConnectionRemoved(from, to) ==
    /\ <<from, to>> \in graphEdges
    /\ graphEdges' = graphEdges \ {<<from, to>>}
    /\ LET c == recalculate_filter_chains(filterChains, inputGateNodes, graphEdges')
       IN  filterChains' = c.chains /\ cycleWarnings' = c.warnings
    /\ UNCHANGED <<graphNodes, inputGateNodes>>
    /\ GraphCallFrame

\* Without the gate, as std::vector::erase of the std::find leaves the list.
without_gate(gates, node) == SelectSeq(gates, LAMBDA g : g # node)

\* The user removes a node: the scene drops its connections, signalling each,
\* and signals nodeRemoved.
nodeRemoved(node) ==
    /\ node \in graphNodes
    /\ graphNodes' = graphNodes \ {node}
    /\ graphEdges' = {e \in graphEdges : e[1] # node /\ e[2] # node}
    /\ inputGateNodes' = IF filter_type(node) = "input_gate"
                         THEN without_gate(inputGateNodes, node)
                         ELSE inputGateNodes
    /\ LET c == recalculate_filter_chains(filterChains, inputGateNodes', graphEdges')
       IN  filterChains' = c.chains /\ cycleWarnings' = c.warnings
    /\ GraphCallFrame

\* The user asks for a new graph and agrees to lose the one there is.
clear_filter_graph ==
    /\ graphNodes # {}
    /\ filterChains' = <<>>
    /\ graphNodes' = {}
    /\ graphEdges' = {}
    /\ inputGateNodes' = <<>>
    /\ UNCHANGED cycleWarnings
    /\ GraphCallFrame

\* The user at the filter graph.
NextGraph ==
    \/ \E node \in GraphNodes : add_filter_node(node)
    \/ \E from \in GraphNodes, to \in GraphNodes : edgeConnectionAdded(from, to)
    \/ \E from \in GraphNodes, to \in GraphNodes : edgeConnectionRemoved(from, to)
    \/ \E node \in GraphNodes : nodeRemoved(node)
    \/ clear_filter_graph

SpecGraph == Init /\ [][NextGraph]_vars

ChainsListed == {filterChains[i] : i \in 1..Len(filterChains)}

\* C22: every chain in the list begins with an input gate and ends with an
\* output gate, and the list holds only chains of the graph as it is: each
\* runs over nodes and connections that are there, and none is listed twice.
C22_ChainsRunGateToGate ==
    /\ \A c \in ChainsListed :
          /\ filter_type(c[1]) = "input_gate"
          /\ filter_type(c[Len(c)]) = "output_gate"
          /\ \A k \in 1..Len(c) : c[k] \in graphNodes
          /\ \A k \in 1..(Len(c) - 1) : <<c[k], c[k + 1]>> \in graphEdges
    /\ Cardinality(ChainsListed) = Len(filterChains)

\* Two chains are listed, one of them through both filters, after a
\* recalculation that met no loop.
C22_Witness ==
    /\ Len(filterChains) = 2
    /\ \E c \in ChainsListed : Len(c) = 4
    /\ cycleWarnings = 0

\* The paths without a repeated node that lead from the node to an output
\* gate, and whether a walk from the node comes back to a node it has seen.
RECURSIVE paths_to_output(_, _, _)
paths_to_output(node, seen, edges) ==
    IF filter_type(node) = "output_gate"
    THEN {<<node>>}
    ELSE UNION {{<<node>> \o path : path \in paths_to_output(to, seen \cup {node}, edges)} :
                to \in connectedTo(node, edges) \ (seen \cup {node})}

RECURSIVE meets_loop(_, _, _)
meets_loop(node, seen, edges) ==
    /\ filter_type(node) # "output_gate"
    /\ \E to \in connectedTo(node, edges) :
          to \in seen \cup {node} \/ meets_loop(to, seen \cup {node}, edges)

GatesListed == {inputGateNodes[i] : i \in 1..Len(inputGateNodes)}

\* C23: with the connections InputGate -> A -> B -> A and no other from
\* these nodes, no chain is listed from that input gate and a warning is
\* shown; whatever the graph, a loop shows a warning and ends only the branch
\* it is on, the chains listed being the paths without a repeated node from
\* an input gate to an output gate.
C23_LoopEndsItsBranchOnly ==
    /\ \A g \in InputGates, a \in Filters, b \in Filters :
          (/\ a # b
           /\ g \in graphNodes
           /\ \A e \in graphEdges : e[1] \in {g, a, b} =>
                  e \in {<<g, a>>, <<a, b>>, <<b, a>>}
           /\ {<<g, a>>, <<a, b>>, <<b, a>>} \subseteq graphEdges)
          => /\ \A c \in ChainsListed : c[1] # g
             /\ cycleWarnings >= 1
    /\ ChainsListed = UNION {paths_to_output(g, {}, graphEdges) : g \in GatesListed}
    /\ (\E g \in GatesListed : meets_loop(g, {}, graphEdges)) => cycleWarnings >= 1

\* An input gate leads into a loop of the two filters, a warning was shown,
\* and chains are listed all the same: one out of the loop's first node and
\* one from the other input gate.
C23_Witness ==
    /\ {<<1, 3>>, <<3, 4>>, <<4, 3>>, <<3, 5>>, <<2, 5>>} \subseteq graphEdges
    /\ cycleWarnings >= 1
    /\ ChainsListed = {<<1, 3, 5>>, <<1, 3, 4, 5>>, <<2, 5>>} \cap ChainsListed
    /\ {<<1, 3, 5>>, <<2, 5>>} \subseteq ChainsListed

----------------------------------------------------------------------------
\* The alias file (capture.cpp:960-1067)

\* The steps of a save that can fail.
SaveFailures == {"none", "open", "write", "remove", "rename"}

\* The end of a save: the file is removed if there is one, and the temporary
\* file renamed to it. failure: the step that fails, if any.
replace_file(file, tmp, failure) ==
    IF file.exists /\ failure = "remove"
    THEN [ok |-> FALSE, file |-> file, tmp |-> tmp]
    ELSE IF failure = "rename"
    THEN [ok |-> FALSE, file |-> NoFile, tmp |-> tmp]
    ELSE [ok |-> TRUE, file |-> tmp, tmp |-> NoFile]

\* What of the rows reaches a file when writing fails.
written(rows, failure) == IF failure = "write" THEN SubSeq(rows, 1, Len(rows) - 1) ELSE rows

\* What a save or a load of the aliases leaves alone.
AliasDiskFrame ==
    UNCHANGED <<counterVars, flagVars, modeVars, cardVars, settingVars, lastAliasCall,
                lastModeUpdate, lateVars, scalerVars, lastConversion, graphVars, modeFile, modeTmp,
                SKIP_NEXT_NUM_FRAMES, FRAME_BUFFER, PROGRAM_EXIT_REQUESTED,
                INPUT_OUTPUT_MUTEX, cbPc, cbFrame, mainPc, event, cbSincePoll, onFrameRun>>

\* kc_save_aliases does not look whether the writing went well.
kc_save_aliases(failure) ==
    /\ BetweenTicks
    /\ failure = "remove" => aliasFile.exists
    /\ failure = "write" => ALIASES # <<>>
    /\ IF failure = "open"
       THEN /\ lastDisk' = [Disk("kc_save_aliases", FALSE, "Data was not saved", FALSE)
                               EXCEPT !.failed = failure, !.before = aliasFile]
            /\ UNCHANGED <<aliasFile, aliasTmp>>
       ELSE LET r == replace_file(aliasFile, File(written(alias_rows(ALIASES), failure)),
                                  failure)
            IN  /\ aliasFile' = r.file
                /\ aliasTmp' = r.tmp
                /\ lastDisk' = [Disk("kc_save_aliases", r.ok,
                                     IF r.ok THEN "none" ELSE "Data was not saved", FALSE)
                                   EXCEPT !.failed = failure, !.before = aliasFile,
                                          !.saved = ALIASES]
    /\ AliasDiskFrame

\* The files the user has aliases loaded from, besides the one saved.
AliasFilesFound == {ShortRowData, JunkRowData}

\* The alias lists the user makes in the dialog: two aliases to one
\* resolution, and two in falling order of the target's area.
EditedAliasLists ==
    {<<A(1024, 768, 800, 600), A(800, 600, 800, 600)>>,
     <<A(800, 600, 1024, 768), A(800, 600, 800, 600)>>}

\* The aliases edited, saved and loaded.
NextAliasDisk ==
    \/ \E list \in EditedAliasLists : kc_update_alias_resolutions(list)
    \/ \E failure \in SaveFailures : kc_save_aliases(failure)
    \/ \E automaticCall \in BOOLEAN :
          aliasFile.exists /\ kc_load_aliases(csv_parse_c(aliasFile), automaticCall)
    \/ \E rowData \in AliasFilesFound : \E automaticCall \in BOOLEAN :
          kc_load_aliases(rowData, automaticCall)

SpecAliasDisk == Init /\ [][NextAliasDisk]_vars

\* The step is a call of the save or load function named.
DiskStep(op) == lastDisk'.tick # lastDisk.tick /\ lastDisk'.op = op

\* C24: a load of an alias file with a malformed row, one with other than
\* four fields or with a field that is not a positive integer, fails with a
\* message shown, leaves the aliases as they were, asks for no switch of the
\* resolution and broadcasts nothing to the GUI.
C24_MalformedRowAbortsLoad ==
    [][(DiskStep("kc_load_aliases") /\ (lastDisk'.badCount \/ lastDisk'.badField)) =>
          /\ ~lastDisk'.ok
          /\ lastDisk'.shown = "Data was not loaded"
          /\ ~lastDisk'.broadcast
          /\ ALIASES' = ALIASES
          /\ cardResolution' = cardResolution
          /\ lastForceRequest' = lastForceRequest]_vars

\* The step loads the alias file that the call before it saved, with no
\* step of either failing.
LoadsSavedAliases ==
    /\ DiskStep("kc_load_aliases")
    /\ lastDisk.op = "kc_save_aliases" /\ lastDisk.ok /\ lastDisk.failed = "none"
    /\ lastDisk'.ok
    /\ aliasFile.exists
    /\ lastDisk'.read = csv_parse_c(aliasFile)

\* Two lists hold the same entries, each as often in one as in the other.
SameEntries(a, b) ==
    /\ Len(a) = Len(b)
    /\ \A x \in {a[i] : i \in 1..Len(a)} \cup {b[i] : i \in 1..Len(b)} :
          Cardinality({i \in 1..Len(a) : a[i] = x}) = Cardinality({i \in 1..Len(b) : b[i] = x})

\* C26 (as stated): saving the aliases and loading the saved file leaves the
\* same aliases in the same order.
C26_LoadOfSaveIsSameList ==
    [][LoadsSavedAliases => ALIASES' = lastDisk.saved]_vars

\* C26 (amended): saving the aliases and loading the saved file leaves the
\* same aliases, each as often as before, in rising order of the area of the
\* resolution they lead to.
C26_LoadOfSaveIsSameAliasesSorted ==
    [][LoadsSavedAliases =>
          /\ SameEntries(ALIASES', lastDisk.saved)
          /\ \A i, j \in 1..Len(ALIASES') :
                i < j => ALIASES'[i].to.w * ALIASES'[i].to.h <= ALIASES'[j].to.w * ALIASES'[j].to.h]_vars

\* A list of two aliases was saved out of order and loaded back in order.
C26_Witness ==
    /\ lastDisk.op = "kc_load_aliases" /\ lastDisk.ok
    /\ lastAliasCall.op = "kc_load_aliases"
    /\ aliasFile.exists
    /\ lastAliasCall.list = aliasesFromDisk(csv_parse_c(aliasFile))
    /\ Len(ALIASES) = 2
    /\ ALIASES # lastAliasCall.list
    /\ SameEntries(ALIASES, lastAliasCall.list)

\* The last call was a save of which a step failed.
SaveFailed(op) == lastDisk.op = op /\ (~lastDisk.ok \/ lastDisk.failed # "none")

\* The file is as it was before the save, and there is no temporary file.
OldFileKept(file, tmp) == (lastDisk.before.exists => file = lastDisk.before) /\ ~tmp.exists

\* C28: when a step of a save fails (the temporary file cannot be opened or
\* written, the old file not removed, the temporary file not renamed), the
\* file that was there before is still there with its contents and the
\* temporary file is gone.
C28_FailedSaveKeepsOldFile ==
    /\ SaveFailed("kc_save_aliases") => OldFileKept(aliasFile, aliasTmp)
    /\ SaveFailed("kc_save_mode_params") => OldFileKept(modeFile, modeTmp)

----------------------------------------------------------------------------
\* The mode parameter file (capture.cpp:1069-1258)

\* Lines with the vertical and the horizontal position in each other's
\* place.
mode_block_positions_swapped(m) ==
    <<<<Word("resolution"), Number(m.r.w), Number(m.r.h)>>,
      <<Word("vPos"), Number(m.video.horPos)>>,
      <<Word("hPos"), Number(m.video.verPos)>>,
      <<Word("hScale"), Number(m.video.horScale)>>,
      <<Word("phase"), Number(m.video.phase)>>,
      <<Word("bLevel"), Number(m.video.blackLevel)>>,
      <<Word("bright"), Number(m.color.bright)>>,
      <<Word("contr"), Number(m.color.contr)>>,
      <<Word("redBr"), Number(m.color.redBright)>>,
      <<Word("redCn"), Number(m.color.redContr)>>,
      <<Word("greenBr"), Number(m.color.greenBright)>>,
      <<Word("greenCn"), Number(m.color.greenContr)>>,
      <<Word("blueBr"), Number(m.color.blueBright)>>,
      <<Word("blueCn"), Number(m.color.blueContr)>>,
      <<>>>>

\* The lines kc_save_mode_params writes for one mode: the resolution, the
\* video parameters, the colour parameters and a blank line.
mode_block(m) ==
    <<<<Word("resolution"), Number(m.r.w), Number(m.r.h)>>,
      <<Word("vPos"), Number(m.video.verPos)>>,
      <<Word("hPos"), Number(m.video.horPos)>>,
      <<Word("hScale"), Number(m.video.horScale)>>,
      <<Word("phase"), Number(m.video.phase)>>,
      <<Word("bLevel"), Number(m.video.blackLevel)>>,
      <<Word("bright"), Number(m.color.bright)>>,
      <<Word("contr"), Number(m.color.contr)>>,
      <<Word("redBr"), Number(m.color.redBright)>>,
      <<Word("redCn"), Number(m.color.redContr)>>,
      <<Word("greenBr"), Number(m.color.greenBright)>>,
      <<Word("greenCn"), Number(m.color.greenContr)>>,
      <<Word("blueBr"), Number(m.color.blueBright)>>,
      <<Word("blueCn"), Number(m.color.blueContr)>>,
      <<>>>>

RECURSIVE mode_rows(_)
mode_rows(modes) ==
    IF modes = <<>> THEN <<>> ELSE mode_block(Head(modes)) \o mode_rows(Tail(modes))

\* The names kc_load_mode_params asks get_param for, in its order.
ParamNames ==
    <<"vPos", "hPos", "hScale", "phase", "bLevel", "bright", "contr", "redBr", "redCn",
      "greenBr", "greenCn", "blueBr", "blueCn">>

\* get_param called for the k-th name of the block that starts at row i:
\* "beyond" when it reads past the rows or past the fields of a row (neither
\* is tested), "throw" when the row has another name, "got" otherwise.
get_param(paramRows, i, k) ==
    IF i + k > Len(paramRows) THEN "beyond"
    ELSE IF paramRows[i + k][1] # Word(ParamNames[k]) THEN "throw"
    ELSE IF Len(paramRows[i + k]) < 2 THEN "beyond"
    ELSE "got"

\* The loop of kc_load_mode_params from row i on, with the modes loaded so
\* far: how it ends ("loaded", "fail" or "beyond") and modesFromDisk.
RECURSIVE modesFromDisk(_, _, _)
modesFromDisk(paramRows, i, loaded) ==
    IF i > Len(paramRows) THEN [outcome |-> "loaded", modes |-> loaded]
    ELSE IF Len(paramRows[i]) # 3 \/ paramRows[i][1] # Word("resolution")
    THEN [outcome |-> "fail", modes |-> loaded]
    ELSE LET notGot == {k \in 1..Len(ParamNames) : get_param(paramRows, i, k) # "got"}
             first == CHOOSE k \in notGot : \A l \in notGot : k <= l
             value(k) == toInt(paramRows[i + k][2])
             p == [r |-> Res(toUInt(paramRows[i][2]), toUInt(paramRows[i][3])),
                   video |-> [verPos |-> value(1), horPos |-> value(2), horScale |-> value(3),
                              phase |-> value(4), blackLevel |-> value(5)],
                   color |-> [bright |-> value(6), contr |-> value(7), redBright |-> value(8),
                              redContr |-> value(9), greenBright |-> value(10),
                              greenContr |-> value(11), blueBright |-> value(12),
                              blueContr |-> value(13)]]
         IN  IF notGot = {}
             THEN modesFromDisk(paramRows, i + Len(ParamNames) + 1, Append(loaded, p))
             ELSE [outcome |-> IF get_param(paramRows, i, first) = "throw" THEN "fail"
                               ELSE "beyond",
                   modes |-> loaded]

\* Whether the rows are not block after block of a resolution row of three
\* fields and the thirteen parameter rows in their order.
block_layout_wrong(paramRows) ==
    LET n == Len(ParamNames) + 1
        right(i) == IF i % n = 1
                    THEN Len(paramRows[i]) = 3 /\ paramRows[i][1] = Word("resolution")
                    ELSE paramRows[i][1] = Word(ParamNames[(i - 1) % n])
    IN  Len(paramRows) % n # 0 \/ \E i \in 1..Len(paramRows) : ~right(i)

\* std::sort by the area of the resolution: any arrangement of the list in
\* which the areas do not decrease.
sorted_by_area(list) ==
    LET n == Len(list)
        perms == {p \in [1..n -> 1..n] : \A i, j \in 1..n : i # j => p[i] # p[j]}
        arranged(p) == [i \in 1..n |-> list[p[i]]]
    IN  {arranged(p) : p \in {q \in perms :
            \A i, j \in 1..n : i < j => area(list[q[i]].r) <= area(list[q[j]].r)}}

\* What a save or a load of the mode parameters leaves alone.
ModeDiskFrame ==
    UNCHANGED <<counterVars, RECEIVING_A_SIGNAL, UNRECOVERABLE_CAPTURE_ERROR,
                SIGNAL_IS_INVALID, SIGNAL_WAS_LOST, SIGNAL_BECAME_INVALID, SIGNAL_WOKE_UP,
                ALIASES, cardCallbacks, CAPTURE_IS_ACTIVE, settingVars, lastAliasCall,
                lastModeUpdate, lateVars, scalerVars, lastConversion, graphVars, aliasFile, aliasTmp,
                FRAME_BUFFER, PROGRAM_EXIT_REQUESTED, INPUT_OUTPUT_MUTEX, cbPc, cbFrame,
                event, cbSincePoll, onFrameRun>>

\* kc_save_mode_params; failure: the step that fails, if any. A write that
\* fails is noticed after the lines of its group.
kc_save_mode_params(failure) ==
    /\ BetweenTicks
    /\ failure = "remove" => modeFile.exists
    /\ failure = "write" => KNOWN_MODES # <<>>
    /\ IF failure = "open"
       THEN /\ lastDisk' = [Disk("kc_save_mode_params", FALSE, "Data was not saved", FALSE)
                               EXCEPT !.failed = failure, !.before = modeFile]
            /\ UNCHANGED <<modeFile, modeTmp>>
       ELSE IF failure = "write"
       THEN /\ modeTmp' = File(written(mode_rows(KNOWN_MODES), failure))
            /\ lastDisk' = [Disk("kc_save_mode_params", FALSE, "Data was not saved", FALSE)
                               EXCEPT !.failed = failure, !.before = modeFile]
            /\ UNCHANGED modeFile
       ELSE LET r == replace_file(modeFile, File(mode_rows(KNOWN_MODES)), failure)
            IN  /\ modeFile' = r.file
                /\ modeTmp' = r.tmp
                /\ lastDisk' = [Disk("kc_save_mode_params", r.ok,
                                     IF r.ok THEN "none" ELSE "Data was not saved", FALSE)
                                   EXCEPT !.failed = failure, !.before = modeFile,
                                          !.saved = KNOWN_MODES]
    /\ UNCHANGED <<KNOWN_MODES, IS_ALIASED_INPUT_RESOLUTION, cardResolution,
                   SKIP_NEXT_NUM_FRAMES, lastForceRequest, cardParams, lastApplyRequest,
                   RECEIVED_NEW_VIDEO_MODE, mainPc>>
    /\ ModeDiskFrame

\* kc_load_mode_params, for a file with the rows paramRows. A read past the
\* rows is undefined: the program stops there, or goes on with what it finds
\* in memory, which is none of the names.
kc_load_mode_params(paramRows, automaticCall) ==
    /\ BetweenTicks
    /\ SKIP_NEXT_NUM_FRAMES < MaxSkipNext
    /\ LET l == modesFromDisk(paramRows, 1, <<>>)
       IN  IF l.outcome = "loaded"
           THEN \E apiOk \in BOOLEAN : \E stored \in sorted_by_area(l.modes) :
                  LET a == aliased(cardResolution, ALIASES, cardResolution, apiOk,
                                   SKIP_NEXT_NUM_FRAMES)
                  IN  /\ KNOWN_MODES' = stored
                      /\ IS_ALIASED_INPUT_RESOLUTION' = a.isAliased
                      /\ cardResolution' = a.resolution
                      /\ SKIP_NEXT_NUM_FRAMES' = a.skipNext
                      /\ lastForceRequest' = a.forceArg
                      /\ cardParams' = kc_apply_mode_parameters(stored, a.newRes)
                      /\ lastApplyRequest' = a.newRes
                      /\ RECEIVED_NEW_VIDEO_MODE' = FALSE
                      /\ lastDisk' = [Disk("kc_load_mode_params", TRUE,
                                           IF automaticCall THEN "none"
                                           ELSE "Data was loaded", TRUE)
                                         EXCEPT !.read = paramRows,
                                                !.badCount = block_layout_wrong(paramRows)]
                      /\ UNCHANGED mainPc
           ELSE /\ \E stops \in {b \in BOOLEAN : b => l.outcome = "beyond"} :
                     /\ lastDisk' = [Disk("kc_load_mode_params", FALSE,
                                          IF stops THEN "none" ELSE "Data was not loaded",
                                          FALSE)
                                        EXCEPT !.cutShort = l.outcome = "beyond",
                                               !.read = paramRows,
                                               !.badCount = block_layout_wrong(paramRows)]
                     /\ mainPc' = IF stops THEN "stopped" ELSE mainPc
                /\ UNCHANGED <<KNOWN_MODES, IS_ALIASED_INPUT_RESOLUTION, cardResolution,
                               SKIP_NEXT_NUM_FRAMES, lastForceRequest, cardParams,
                               lastApplyRequest, RECEIVED_NEW_VIDEO_MODE>>
    /\ UNCHANGED <<modeFile, modeTmp>>
    /\ ModeDiskFrame

\* A mode as saved, and files that depart from the layout: the first row is
\* no resolution row, a name is misspelt, two names have changed places, the
\* first of two blocks lacks its last row, the only block lacks its last row.
SavedMode == [r |-> R1024x768, color |-> StoredColorSettings, video |-> StoredVideoSettings]
with_row(rows, i, row) == [rows EXCEPT ![i] = row]
without_row(rows, i) == SubSeq(rows, 1, i - 1) \o SubSeq(rows, i + 1, Len(rows))

NoResolutionRows == with_row(mode_block(SavedMode), 1, <<Word("res"), Number(1024), Number(768)>>)
MisspeltNameRows == with_row(mode_block(SavedMode), 3, <<Word("hpos"), Number(120)>>)
SwappedNameRows ==
    with_row(with_row(mode_block(SavedMode), 2, <<Word("hPos"), Number(120)>>),
             3, <<Word("vPos"), Number(30)>>)
ShortFirstBlockRows == without_row(mode_block(SavedMode), 14) \o mode_block(SavedMode)
ShortLastBlockRows == without_row(mode_block(SavedMode), 14)

ModeFilesFound ==
    {File(NoResolutionRows), File(MisspeltNameRows), File(SwappedNameRows),
     File(ShortFirstBlockRows), File(ShortLastBlockRows)}

\* The mode parameters set, saved and loaded.
NextModeDisk ==
    \/ \E apiOk \in BOOLEAN : kc_set_capture_color_params(BrightColorSettings, apiOk)
    \/ \E failure \in SaveFailures : kc_save_mode_params(failure)
    \/ \E automaticCall \in BOOLEAN :
          modeFile.exists /\ kc_load_mode_params(csv_parse_c(modeFile), automaticCall)
    \/ \E file \in ModeFilesFound : \E automaticCall \in BOOLEAN :
          kc_load_mode_params(csv_parse_c(file), automaticCall)

SpecModeDisk == Init /\ [][NextModeDisk]_vars

\* C25: a load of a mode parameter file with a block that departs from the
\* layout (the first row is no resolution row, a name is misspelt, names are
\* out of order, rows of a block are missing) fails with the message shown
\* and leaves the known modes as they were.
C25_WrongBlockAbortsLoad ==
    [][(DiskStep("kc_load_mode_params") /\ lastDisk'.badCount) =>
          /\ ~lastDisk'.ok
          /\ lastDisk'.shown = "Data was not loaded"
          /\ KNOWN_MODES' = KNOWN_MODES]_vars

\* The step loads the mode parameter file that the call before it saved,
\* with no step of either failing.
LoadsSavedModes ==
    /\ DiskStep("kc_load_mode_params")
    /\ lastDisk.op = "kc_save_mode_params" /\ lastDisk.ok /\ lastDisk.failed = "none"
    /\ lastDisk'.ok
    /\ modeFile.exists
    /\ lastDisk'.read = csv_parse_c(modeFile)

\* C27: saving the known modes and loading the saved file leaves as many
\* modes as were saved, each resolution with the thirteen parameter values it
\* had, in whatever order.
C27_LoadOfSaveIsSameModes ==
    [][LoadsSavedModes =>
          /\ Len(KNOWN_MODES') = Len(lastDisk.saved)
          /\ SameEntries(KNOWN_MODES', lastDisk.saved)]_vars

\* Two modes were saved out of order and loaded back in order, each with
\* its own parameters.
C27_Witness ==
    /\ lastDisk.op = "kc_load_mode_params" /\ lastDisk.ok
    /\ modeFile.exists
    /\ lastDisk.read = csv_parse_c(modeFile)
    /\ Len(KNOWN_MODES) = 2
    /\ KNOWN_MODES # modesFromDisk(lastDisk.read, 1, <<>>).modes
    /\ KNOWN_MODES[1].color # KNOWN_MODES[2].color

----------------------------------------------------------------------------
\* The shutdown (capture.cpp:425-486)

\* C29: the frame buffer is released only once the capture has been stopped
\* and the callbacks have been taken from the card: in no state is the
\* buffer released while the capture is active or a callback registered.
C29_ReleasedAfterStopped ==
    FRAME_BUFFER.pixelsNull => (~CAPTURE_IS_ACTIVE /\ ~cardCallbacks)

----------------------------------------------------------------------------
\* The order of the events (capture.cpp:718-761)

\* The first of the eight cases that the flags and counters meet.
first_case ==
    IF UNRECOVERABLE_CAPTURE_ERROR THEN 1
    ELSE IF RECEIVED_NEW_VIDEO_MODE THEN 2
    ELSE IF SIGNAL_WAS_LOST THEN 3
    ELSE IF ~RECEIVING_A_SIGNAL THEN 4
    ELSE IF SIGNAL_BECAME_INVALID THEN 5
    ELSE IF SIGNAL_IS_INVALID THEN 6
    ELSE IF CNT_FRAMES_CAPTURED # CNT_FRAMES_PROCESSED THEN 7
    ELSE 8

\* The event of each case.
event_of_case ==
    <<"CEVENT_UNRECOVERABLE_ERROR", "CEVENT_NEW_VIDEO_MODE", "CEVENT_NO_SIGNAL", "CEVENT_SLEEP",
      "CEVENT_INVALID_SIGNAL", "CEVENT_SLEEP", "CEVENT_NEW_FRAME", "CEVENT_NONE">>

\* kc_get_next_capture_event called with the flags and the counters in every
\* combination.
InitEvent ==
    /\ CNT_FRAMES_PROCESSED = 0
    /\ CNT_FRAMES_CAPTURED \in {0, 1}
    /\ CNT_FRAMES_SKIPPED = 0
    /\ RECEIVING_A_SIGNAL \in BOOLEAN
    /\ UNRECOVERABLE_CAPTURE_ERROR \in BOOLEAN
    /\ SIGNAL_IS_INVALID \in BOOLEAN
    /\ SIGNAL_WAS_LOST \in BOOLEAN
    /\ SIGNAL_BECAME_INVALID \in BOOLEAN
    /\ RECEIVED_NEW_VIDEO_MODE \in BOOLEAN
    /\ InitRest

NextEvent == PollCaptureEvent

SpecEvent == InitEvent /\ [][NextEvent]_vars

\* C30: kc_get_next_capture_event returns the event of the first case met,
\* in the order error, new video mode, signal lost, no signal (sleep),
\* signal became invalid, signal invalid (sleep), frame captured and not
\* processed, none; and it changes nothing but what the case names: the
\* new-mode flag, the received and the invalid flag for a new video mode, the
\* lost and the received flag for a lost signal, the became-invalid, the
\* received and the invalid flag for a signal become invalid.
C30_FirstCaseWins ==
    [][PollStep =>
          /\ event' = event_of_case[first_case]
          /\ UNCHANGED <<counterVars, UNRECOVERABLE_CAPTURE_ERROR, SIGNAL_WOKE_UP, modeVars,
                         cardVars, SKIP_NEXT_NUM_FRAMES, FRAME_BUFFER>>
          /\ first_case # 2 => UNCHANGED RECEIVED_NEW_VIDEO_MODE
          /\ first_case # 3 => UNCHANGED SIGNAL_WAS_LOST
          /\ first_case # 5 => UNCHANGED SIGNAL_BECAME_INVALID
          /\ first_case \notin {2, 3, 5} => UNCHANGED RECEIVING_A_SIGNAL
          /\ first_case \notin {2, 5} => UNCHANGED SIGNAL_IS_INVALID]_vars

\* The error has been reported while a new video mode, a lost signal and a
\* frame were waiting.
C30_Witness ==
    /\ mainPc = "handle"
    /\ event = "CEVENT_UNRECOVERABLE_ERROR"
    /\ RECEIVED_NEW_VIDEO_MODE
    /\ SIGNAL_WAS_LOST
    /\ CNT_FRAMES_CAPTURED # CNT_FRAMES_PROCESSED

----------------------------------------------------------------------------
\* The mutex (capture.cpp:21-22, 167, 213, 233, 254, 266)

\* What the callbacks write under the mutex.
CallbackWrites ==
    <<FRAME_BUFFER, CNT_FRAMES_CAPTURED, SIGNAL_WOKE_UP, RECEIVED_NEW_VIDEO_MODE,
      SIGNAL_IS_INVALID, SIGNAL_WAS_LOST, UNRECOVERABLE_CAPTURE_ERROR, cbSincePoll>>

SignalCallbackStep ==
    /\ cbPc = "idle" /\ cbPc' = "idle"
    /\ mainPc' = mainPc
    /\ PROGRAM_EXIT_REQUESTED' = PROGRAM_EXIT_REQUESTED

\* C32: once the exit has been requested, the signal callbacks
\* (video_mode_changed, invalid_signal, no_signal, error) leave every flag
\* of the capture unit as it was.
C32_CallbacksIdleAfterExit ==
    [][(PROGRAM_EXIT_REQUESTED /\ SignalCallbackStep) => UNCHANGED flagVars]_vars

----------------------------------------------------------------------------
\* The aliases looked up (capture.cpp:577-590, 1041-1047)

\* The resolution the aliases lead to from r, NoRes when they lead nowhere.
alias_target(aliases, r) ==
    LET idx == kc_alias_resolution_index(aliases, r)
    IN  IF idx < 0 THEN NoRes ELSE aliases[idx + 1].to

\* C33: the sort of kc_load_aliases changes no lookup: every resolution
\* leads to the same target in the list as loaded and in the list as sorted,
\* and the resolution the load asks the card to switch to is the one the
\* sorted list leads to from the card's resolution.
C33_SortKeepsLookups ==
    [][(DiskStep("kc_load_aliases") /\ lastDisk'.ok) =>
          /\ \A r \in VideoModes :
                alias_target(lastAliasCall'.list, r) = alias_target(ALIASES', r)
          /\ lastAliasCall'.requested =>
                lastAliasCall'.switchTo = alias_target(ALIASES', cardResolution)]_vars

----------------------------------------------------------------------------
\* frame_captured called on two threads of the card (capture.cpp:156-207)

\* What a step of the second thread leaves alone.
SecondThreadFrame ==
    UNCHANGED <<CNT_FRAMES_PROCESSED, flagVars, modeVars, cardVars, settingVars, lastAliasCall,
                lastModeUpdate, scalerVars, lastConversion, graphVars, diskVars,
                SKIP_NEXT_NUM_FRAMES, PROGRAM_EXIT_REQUESTED, INPUT_OUTPUT_MUTEX, cbPc, cbFrame,
                mainPc, event, cbSincePoll, onFrameRun, displayVars>>

\* The card calls frame_captured on its second thread.
second_frame_captured_call(f) ==
    /\ cardCallbacks
    /\ cb2Pc = "idle"
    /\ cb2Pc' = "fc_check"
    /\ cb2Frame' = f
    /\ UNCHANGED <<CNT_FRAMES_CAPTURED, CNT_FRAMES_SKIPPED, FRAME_BUFFER, sinceProcessed>>
    /\ SecondThreadFrame

\* frame_captured on the second thread, ahead of the mutex.
second_frame_captured_check ==
    /\ cb2Pc = "fc_check"
    /\ IF frame_captured_skips(CNT_FRAMES_CAPTURED, CNT_FRAMES_PROCESSED)
       THEN /\ CNT_FRAMES_SKIPPED' = Wrap(CNT_FRAMES_SKIPPED + 1)
            /\ cb2Pc' = "idle"
            /\ cb2Frame' = NoFrame
       ELSE /\ cb2Pc' = "fc_lock"
            /\ UNCHANGED <<CNT_FRAMES_SKIPPED, cb2Frame>>
    /\ UNCHANGED <<CNT_FRAMES_CAPTURED, FRAME_BUFFER, sinceProcessed>>
    /\ SecondThreadFrame

\* frame_captured on the second thread, from taking the mutex to the return.
second_frame_captured_store ==
    /\ cb2Pc = "fc_lock"
    /\ INPUT_OUTPUT_MUTEX = "free"
    /\ LET out == frame_captured_locked(PROGRAM_EXIT_REQUESTED, cb2Frame, FRAME_BUFFER,
                                        CNT_FRAMES_CAPTURED)
       IN  /\ FRAME_BUFFER' = out.buffer
           /\ CNT_FRAMES_CAPTURED' = out.captured
    /\ cb2Pc' = "idle"
    /\ cb2Frame' = NoFrame
    /\ sinceProcessed' = sinceProcessed \cup {outcome(PROGRAM_EXIT_REQUESTED, cb2Frame, FRAME_BUFFER)}
    /\ UNCHANGED CNT_FRAMES_SKIPPED
    /\ SecondThreadFrame

\* Frames arriving on two threads while the main loop takes them up.
NextThreads ==
    \/ \E f \in ValidFrames : frame_captured_call(f)
    \/ frame_captured_check
    \/ frame_captured_store
    \/ \E f \in ValidFrames : second_frame_captured_call(f)
    \/ second_frame_captured_check
    \/ second_frame_captured_store
    \/ PollCaptureEvent
    \/ HandleNewFrame
    \/ HandleIdle

SpecThreads == Init /\ [][NextThreads]_vars

\* C34: the frame buffer is not written over while it holds a frame not yet
\* processed: no step of frame_captured, on whichever thread, writes the
\* pixels or the resolution of the frame buffer or counts a frame as
\* captured while the captured and the processed count differ.
C34_SlotKeptUntilProcessed ==
    [][(/\ cbPc' # cbPc \/ cb2Pc' # cb2Pc
        /\ FRAME_BUFFER' # FRAME_BUFFER \/ CNT_FRAMES_CAPTURED' # CNT_FRAMES_CAPTURED)
          => CNT_FRAMES_CAPTURED = CNT_FRAMES_PROCESSED]_vars

\* C35: whenever the main loop has a new-frame event in hand, the frame
\* buffer holds pixels and a resolution that a frame_captured call copied
\* into it after the buffer was last marked as processed: a frame that was
\* processed is not handed over as new a second time.
C35_NewFrameIsFresh ==
    (mainPc = "handle" /\ event = "CEVENT_NEW_FRAME") => "stored" \in sinceProcessed

\* C35, amended: whenever the main loop has a new-frame event in hand, a
\* frame_captured call was counted after the buffer was last marked as
\* processed, and unless a counted call's frame was rejected the buffer
\* holds what such a call copied into it.
C35_NewFrameFollowsCountedCall ==
    (mainPc = "handle" /\ event = "CEVENT_NEW_FRAME") =>
        /\ sinceProcessed # {}
        /\ "rejected" \notin sinceProcessed => "stored" \in sinceProcessed

C35_Witness ==
    mainPc = "handle" /\ event = "CEVENT_NEW_FRAME" /\ sinceProcessed = {"stored"}

----------------------------------------------------------------------------
\* The signal is lost and comes back, and the main loop keeps running

\* The card reports the loss of the signal, before it reports a video mode.
no_signal_first ==
    /\ lastApplyRequest = NoRes
    /\ ~RECEIVED_NEW_VIDEO_MODE
    /\ no_signal

\* The card reports a video mode, and reports nothing more once the main
\* loop has taken a new video mode up.
video_mode_changed_last(r) ==
    /\ lastApplyRequest = NoRes
    /\ video_mode_changed(r)

\* The steps of the main loop while the program is not exiting.
MainLoop ==
    \/ PollCaptureEvent
    \/ HandleNewVideoMode
    \/ HandleSignalLoss
    \/ HandleNewFrame
    \/ HandleIdle

NextSettle ==
    \/ no_signal_first
    \/ \E r \in VideoModes : video_mode_changed_last(r)
    \/ \E f \in ValidFrames : frame_captured_call_few(f)
    \/ frame_captured_check
    \/ frame_captured_store
    \/ MainLoop

\* The main loop runs for as long as the program does, so a step of it that
\* stays possible is taken.
SpecSettle == Init /\ [][NextSettle]_vars /\ WF_vars(MainLoop)

\* C36: when no_signal and video_mode_changed have both been called between
\* two polls of the main loop, video_mode_changed last as it is under this
\* specification, and no signal callback follows the new video mode, the
\* main loop comes to mark the signal as received and leaves it so from then
\* on.
C36_SettlesAtLastCallback ==
    ({"no_signal", "video_mode_changed"} \subseteq cbSincePoll) ~> [](RECEIVING_A_SIGNAL)

----------------------------------------------------------------------------
\* Frames handed over while the signal stays as it is and the main loop runs

NextHandoff ==
    \/ \E f \in Frames : frame_captured_call(f)
    \/ frame_captured_check
    \/ frame_captured_store
    \/ PollCaptureEvent
    \/ HandleNewFrame
    \/ HandleIdle

SpecHandoff == Init /\ [][NextHandoff]_vars /\ WF_vars(MainLoop)

\* The frame handed over is pending, and the main loop has it in hand.
FramePending == CNT_FRAMES_CAPTURED # CNT_FRAMES_PROCESSED
NewFrameInHand == mainPc = "handle" /\ event = "CEVENT_NEW_FRAME"

\* C37: with the signal received and valid, no error and no exit, and the
\* main loop running, every frame counted as captured comes to be reported
\* by a new-frame event, the event is followed by the buffer being marked as
\* processed, and a frame_captured call that tests the counters after that,
\* before another frame is counted, is not skipped.
C37_HandoffNeverStalls ==
    /\ FramePending ~> NewFrameInHand
    /\ NewFrameInHand ~> (mainPc = "poll" /\ ~FramePending)
    /\ [][HandledStep("CEVENT_NEW_FRAME") => ~FramePending']_vars
    /\ [][(cbPc = "fc_check" /\ cbPc' # "fc_check" /\ ~FramePending)
             => cbPc' = "fc_lock"]_vars

\* A frame has been processed, and the call that followed is let through.
C37_Witness ==
    /\ mainPc = "poll"
    /\ event = "CEVENT_NEW_FRAME"
    /\ CNT_FRAMES_PROCESSED = 1
    /\ ~FramePending
    /\ cbPc = "fc_lock"

----------------------------------------------------------------------------
\* The depth of the traversal of the filter graph
\* (filter_graph_dialog.cpp:303-336)

Max(S) == IF S = {} THEN 0 ELSE CHOOSE n \in S : \A o \in S : o <= n

\* How deep the calls of traverse_filter_node nest, the call for this node
\* counted as one.
RECURSIVE traverse_depth(_, _, _)
traverse_depth(node, accumulatedFilterChain, edges) ==
    IF Contains(accumulatedFilterChain, node)
    THEN 1
    ELSE IF filter_type(node) = "output_gate"
    THEN 1
    ELSE 1 + Max({traverse_depth(to, Append(accumulatedFilterChain, node), edges) :
                    to \in connectedTo(node, edges)})

\* C38: the recalculation of the chains comes to an end on every graph,
\* loops and branching included, its calls never nesting deeper than the
\* number of nodes and one; no chain listed holds a node twice, and each is
\* a path over connections of the graph from an input gate to the first
\* output gate on it.
C38_TraversalEndsWithSimplePaths ==
    /\ \A g \in GatesListed :
          traverse_depth(g, <<>>, graphEdges) <= Cardinality(graphNodes) + 1
    /\ \A c \in ChainsListed :
          /\ \A i \in 1..Len(c), j \in 1..Len(c) : c[i] = c[j] => i = j
          /\ c[1] \in GatesListed
          /\ \A k \in 1..(Len(c) - 1) :
                <<c[k], c[k + 1]>> \in graphEdges /\ filter_type(c[k]) # "output_gate"
          /\ filter_type(c[Len(c)]) = "output_gate"

\* The graph has a loop of the two filters and branches at both, the
\* traversal nests as deep as it can, and the chain through both filters is
\* listed.
C38_Witness ==
    /\ {<<1, 3>>, <<3, 4>>, <<4, 3>>, <<4, 5>>, <<3, 5>>} \subseteq graphEdges
    /\ traverse_depth(1, <<>>, graphEdges) = 4
    /\ <<1, 3, 4, 5>> \in ChainsListed
    /\ cycleWarnings >= 1

----------------------------------------------------------------------------
\* The display told of the signal (src/src/display/qt/d_main.cpp)

\* What a call of the display leaves alone.
DisplayCallFrame ==
    UNCHANGED <<counterVars, flagVars, modeVars, cardVars, settingVars, lastAliasCall,
                lastModeUpdate, scalerVars, lastConversion, graphVars, diskVars, secondVars,
                sinceProcessed, SKIP_NEXT_NUM_FRAMES, FRAME_BUFFER,
                PROGRAM_EXIT_REQUESTED, INPUT_OUTPUT_MUTEX, cbPc, cbFrame, mainPc, event,
                cbSincePoll, onFrameRun>>

kd_acquire_output_window ==
    /\ WINDOW' = "MainWindow"
    /\ windowSignalInfo' = "none"
    /\ UNCHANGED lastStatusCall
    /\ DisplayCallFrame

kd_release_output_window ==
    /\ IF WINDOW = "nullptr"
       THEN UNCHANGED <<WINDOW, windowSignalInfo>>
       ELSE WINDOW' = "nullptr" /\ windowSignalInfo' = "none"
    /\ UNCHANGED lastStatusCall
    /\ DisplayCallFrame

\* The function of the window that kd_set_capture_signal_reception_status
\* calls, "nothing" for none.
signal_reception_call(window, receivingASignal) ==
    IF window # "nullptr"
    THEN IF receivingASignal
         THEN "set_capture_info_as_no_signal"
         ELSE "set_capture_info_as_receiving_signal"
    ELSE "nothing"

kd_set_capture_signal_reception_status(receivingASignal) ==
    LET sent == signal_reception_call(WINDOW, receivingASignal)
    IN  /\ windowSignalInfo' = IF sent = "nothing" THEN windowSignalInfo ELSE sent
        /\ lastStatusCall' = StatusCall(receivingASignal, WINDOW, sent, 1 - lastStatusCall.tick)
        /\ UNCHANGED WINDOW
        /\ DisplayCallFrame

\* The display acquired, told of the signal and released while the card
\* reports on the signal and the main loop runs.
NextDisplay ==
    \/ kd_acquire_output_window
    \/ kd_release_output_window
    \/ \E receivingASignal \in BOOLEAN :
          kd_set_capture_signal_reception_status(receivingASignal)
    \/ no_signal_first
    \/ \E r \in VideoModes : video_mode_changed_last(r)
    \/ PollCaptureEvent
    \/ HandleNewVideoMode
    \/ HandleSignalLoss
    \/ HandleIdle

SpecDisplay == Init /\ [][NextDisplay]_vars

\* C40: kd_set_capture_signal_reception_status tells the window what it was
\* told: called with true it calls the window's
\* set_capture_info_as_receiving_signal, called with false the window's
\* set_capture_info_as_no_signal, and with no window acquired it calls
\* nothing.
C40_StatusForwardedAsGiven ==
    lastStatusCall # NoStatusCall =>
        lastStatusCall.sent =
            IF lastStatusCall.window = "nullptr" THEN "nothing"
            ELSE IF lastStatusCall.receivingASignal
                 THEN "set_capture_info_as_receiving_signal"
                 ELSE "set_capture_info_as_no_signal"

----------------------------------------------------------------------------
\* The rows read by kc_load_mode_params (capture.cpp:1180-1224)

\* Whether the loop of kc_load_mode_params, from the block that starts at
\* row i on, calls get_param with its row index at or past the number of
\* rows.
RECURSIVE reads_past_rows(_, _)
reads_past_rows(paramRows, i) ==
    IF i > Len(paramRows) THEN FALSE
    ELSE IF Len(paramRows[i]) # 3 \/ paramRows[i][1] # Word("resolution") THEN FALSE
    ELSE LET notGot == {k \in 1..Len(ParamNames) : get_param(paramRows, i, k) # "got"}
             first == CHOOSE k \in notGot : \A l \in notGot : k <= l
         IN  IF notGot = {}
             THEN reads_past_rows(paramRows, i + Len(ParamNames) + 1)
             ELSE i + first > Len(paramRows)

\* C39: whatever the file holds, a file whose last block has fewer than
\* thirteen parameter rows included, no load of the mode parameters reads a
\* parameter row with an index at or past the number of rows parsed.
C39_RowIndexWithinRows ==
    [][DiskStep("kc_load_mode_params") => ~reads_past_rows(lastDisk'.read, 1)]_vars
====
